---- MODULE Spec2Model ----
(***************************************************************************)
(* Crawl-and-reconcile pipeline of the 591 rental crawler (src/crawler.ts, *)
(* the Playwright + Google Sheets variant, lines 379-1378).                *)
(*                                                                         *)
(* The specifications of this module:                                     *)
(*   Spec       the Data sheet of one store under repeated processSheet    *)
(*              runs (crawl result, de-duplication, writeListingsToSheet)  *)
(*              and curator edits of the three user columns;               *)
(*   SpecDedup  the de-duplication expression of processSheet applied to   *)
(*              bounded crawled sequences;                                 *)
(*   SpecCrawl  crawlUrl: the page loop, the attempt loop and the handling *)
(*              of one page attempt's outcome;                             *)
(*   SpecMain   main: the loop over the configured stores and the exit     *)
(*              status;                                                    *)
(*   SpecWrite  the backend calls of writeListingsToSheet under withRetry; *)
(*   SpecPage   one page attempt of crawlUrl step by step, with the time   *)
(*              elapsed since the race started (SpecPageLive adds the      *)
(*              fairness of the timers);                                   *)
(*   SpecRun    processSheet step by step, as the sequence of its reads,   *)
(*              crawls and writes.                                         *)
(*                                                                         *)
(* Text is modelled as a TLA+ string where the code only stores and        *)
(* compares it, and as a sequence of one-character strings where the code  *)
(* or the sheet transforms it (the title inside the HYPERLINK formula, the *)
(* price rendered through its number format).                              *)
(***************************************************************************)
EXTENDS Integers, Sequences, FiniteSets, TLC

VARIABLES
    sheet,      \* Data sheet: grid rows below the header; sheet[k] is grid row index k
    now,        \* clock: timestamp of the latest run (0 before the first run)
    result,     \* the latest processSheet run: its inputs, decisions and outcome
    lastOp,     \* the latest step on the store: "none", "run" or "edit"
    scPhase,    \* SpecPartial: "none", "failed", "recovered" or "cut"
    scBefore,   \* SpecPartial: the Data sheet before the run that failed or was cut short
    scRun,      \* SpecPartial: the inputs of that run
    ddIn,       \* SpecDedup: crawled sequence (allListings)
    ddOut,      \* SpecDedup: uniqueListings
    ddDone,     \* SpecDedup: de-duplication applied
    pc,         \* SpecCrawl: position in crawlUrl
    pageNum,    \* SpecCrawl: page loop variable
    attempt,    \* SpecCrawl: attempt loop variable
    allListings,\* SpecCrawl: records collected so far
    succeeded,  \* SpecCrawl: flag of the page loop body
    returned,   \* SpecCrawl: value returned by crawlUrl
    lastOutcome,\* SpecCrawl: outcome of the latest page attempt
    lastFetch,  \* SpecCrawl: <<page, attempt>> of the latest navigation
    failedTries,\* SpecCrawl: non-timeout errors seen on the current page
    okPages,    \* SpecCrawl: pages whose records were pushed, with the attempt
    slept,      \* SpecCrawl: delay slept since the latest navigation (ms), 0 if none
    sheetConfigs,\* SpecMain: what getSheetConfigs returned
    mainPc,     \* SpecMain: position in main
    mainIdx,    \* SpecMain: index of the store the loop is at
    started,    \* SpecMain: indices of the stores whose processSheet was called
    results,    \* SpecMain: the results array of main
    exitStatus, \* SpecMain: status passed to process.exit (-1: still running)
    wNew,       \* SpecWrite: newRows.length > 0
    wBatch,     \* SpecWrite: allUpdateIndices.length > 0
    wPc,        \* SpecWrite: position in writeListingsToSheet / withRetry
    wCall,      \* SpecWrite: index in WriteCalls of the call under withRetry
    wAttempt,   \* SpecWrite: attempt of the withRetry loop
    wInvoked,   \* SpecWrite: invocations of each backend call so far
    wErrors,    \* SpecWrite: errors of the failed attempts of the current call
    wSlept,     \* SpecWrite: delays waited in the current withRetry (ms)
    wThrown,    \* SpecWrite: the error writeListingsToSheet threw, if any
    wInFlight,  \* SpecWrite: <<call, attempt>> of the latest timed-out operation while it has not settled
    wLate,      \* SpecWrite: <<call, attempt>> of the latest operation that took effect after its timeout
    aPc,        \* SpecPage: position in the page attempt
    aOpened,    \* SpecPage: context.newPage() gave a page
    aElapsed,   \* SpecPage: ms since the race of the attempt started
    aNav,       \* SpecPage: what page.goto gave
    aData,      \* SpecPage: items in the embedded data of the loaded page
    aWaits,     \* SpecPage: how the selector wait and the networkidle wait ended
    aExtract,   \* SpecPage: page.evaluate of the embedded data: none/started/returned/threw
    aRace,      \* SpecPage: what the race settled to
    aClose,     \* SpecPage: page.close(): none/initiated/closed/rejected/abandoned
    aCloseMs,   \* SpecPage: ms spent in the finally block
    aPending,   \* SpecPage: the step a timed-out attempt left pending, or "none"
    aQuery,     \* SpecPage: index of the url whose page is being attempted
    rPc,        \* SpecRun: position in processSheet
    rUrls,      \* SpecRun: urls returned by ensureConfigSheet
    rIdx,       \* SpecRun: loop variable i of the crawl loop
    rWrite,     \* SpecRun: which blocks of writeListingsToSheet have work
    rLog,       \* SpecRun: reads, crawls and writes of the run so far, in order
    rThrown,    \* SpecRun: an error is propagating out of processSheet
    rError,     \* SpecRun: message of the error processSheet threw ("" if none)
    rBackend,   \* SpecRun: the calls made to the Sheets API in this run, in order
    credentials \* GOOGLE_SERVICE_ACCOUNT_EMAIL and GOOGLE_PRIVATE_KEY are both set

storeVars == <<sheet, now, result, lastOp, scPhase, scBefore, scRun>>
dedupVars == <<ddIn, ddOut, ddDone>>
crawlVars == <<pc, pageNum, attempt, allListings, succeeded, returned,
               lastOutcome, lastFetch, failedTries, okPages, slept>>
mainVars == <<sheetConfigs, mainPc, mainIdx, started, results, exitStatus>>
writeVars == <<wNew, wBatch, wPc, wCall, wAttempt, wInvoked, wErrors, wSlept, wThrown,
               wInFlight, wLate>>
pageVars == <<aPc, aOpened, aElapsed, aNav, aData, aWaits, aExtract, aRace, aClose,
              aCloseMs, aPending, aQuery>>
runVars == <<rPc, rUrls, rIdx, rWrite, rLog, rThrown, rError, rBackend, credentials>>
vars == <<sheet, now, result, lastOp, scPhase, scBefore, scRun, ddIn, ddOut, ddDone, pc, pageNum, attempt,
          allListings, succeeded, returned, lastOutcome, lastFetch,
          failedTries, okPages, slept,
          sheetConfigs, mainPc, mainIdx, started, results, exitStatus,
          wNew, wBatch, wPc, wCall, wAttempt, wInvoked, wErrors, wSlept, wThrown,
          wInFlight, wLate,
          aPc, aOpened, aElapsed, aNav, aData, aWaits, aExtract, aRace, aClose,
          aCloseMs, aPending, aQuery, rPc, rUrls, rIdx, rWrite, rLog, rThrown,
          rError, rBackend, credentials>>

(***************************************************************************)
(* Bounds of the model.                                                    *)
(***************************************************************************)
\* number of processSheet runs explored
MaxRuns == 3
\* number of curator edits explored
MaxEdits == 1
\* length of the crawled sequences given to the de-duplication
MaxCrawled == 3
\* number of configured stores
MaxStores == 3

(***************************************************************************)
(* CONFIG of crawler.ts.                                                   *)
(***************************************************************************)
MAX_PAGES_PER_URL == 10
MAX_ITEMS_PER_URL == 30
REQUEST_DELAY_MS == 2000
PAGE_RETRY_COUNT == 3

(***************************************************************************)
(* Generic helpers.                                                        *)
(***************************************************************************)
Range(s) == {s[i] : i \in DOMAIN s}

RECURSIVE Flatten(_)
Flatten(ss) == IF ss = <<>> THEN <<>> ELSE Head(ss) \o Flatten(Tail(ss))

Min(S) == CHOOSE m \in S : \A n \in S : m <= n
Max(S) == CHOOSE m \in S : \A n \in S : m >= n

(***************************************************************************)
(* Text conversions between the crawler and the sheet.                     *)
(***************************************************************************)
DQ == "\""

\* listing.title.replace(/"/g, '""') inside the HYPERLINK formula
RECURSIVE EscapeQuotes(_)
EscapeQuotes(t) ==
    IF t = <<>> THEN <<>>
    ELSE IF Head(t) = DQ THEN <<DQ, DQ>> \o EscapeQuotes(Tail(t))
    ELSE <<Head(t)>> \o EscapeQuotes(Tail(t))

\* titleWithLink: =HYPERLINK("<url>", "<escaped title>")
titleWithLink(listing) ==
    [formula |-> TRUE, url |-> listing.url, label |-> EscapeQuotes(listing.title)]

\* The sheet evaluates the string literal of the formula: "" stands for one quote.
RECURSIVE UnescapeQuotes(_)
UnescapeQuotes(t) ==
    IF t = <<>> THEN <<>>
    ELSE IF Len(t) >= 2 /\ t[1] = DQ /\ t[2] = DQ
         THEN <<DQ>> \o UnescapeQuotes(Tail(Tail(t)))
    ELSE <<Head(t)>> \o UnescapeQuotes(Tail(t))

\* Displayed value of a Title cell: the link label, not the formula string.
DisplayedTitle(cell) == IF cell.formula THEN UnescapeQuotes(cell.label) ELSE <<>>

DigitChars == <<"0", "1", "2", "3", "4", "5", "6", "7", "8", "9">>

RECURSIVE DigitsOf(_)
DigitsOf(n) ==
    IF n < 10 THEN <<DigitChars[n + 1]>>
    ELSE DigitsOf(n \div 10) \o <<DigitChars[(n % 10) + 1]>>

\* thousands separators of the pattern #,##0
RECURSIVE GroupThousands(_)
GroupThousands(ds) ==
    IF Len(ds) <= 3 THEN ds
    ELSE GroupThousands(SubSeq(ds, 1, Len(ds) - 3)) \o <<",">>
         \o SubSeq(ds, Len(ds) - 2, Len(ds))

\* literal suffix of the number format: the quoted text of the pattern
\* (dollars per month), written here in ASCII letters
PriceUnitSuffix == <<"N", "T", "/", "m", "o">>

\* cell.numberFormat = { type: "NUMBER", pattern: '#,##0"<unit>"' }
PRICE_PATTERN == "#,##0+unit"

\* Displayed value of a numeric cell under its number format.
DisplayedNumber(cell) ==
    IF cell.empty THEN <<>>
    ELSE IF cell.pattern = PRICE_PATTERN
         THEN GroupThousands(DigitsOf(cell.value)) \o PriceUnitSuffix
    ELSE DigitsOf(cell.value)

RECURSIVE DigitsValue(_)
DigitsValue(ds) ==
    IF ds = <<>> THEN 0
    ELSE 10 * DigitsValue(SubSeq(ds, 1, Len(ds) - 1))
         + (CHOOSE d \in 0..9 : DigitChars[d + 1] = ds[Len(ds)])

\* JavaScript Number(text): a number, or NaN when the text is not numeric.
JsNumber(text) ==
    IF \A i \in DOMAIN text : text[i] \in Range(DigitChars)
    THEN [nan |-> FALSE, val |-> DigitsValue(text)]
    ELSE [nan |-> TRUE, val |-> 0]

\* a !== b on numbers: NaN differs from everything, itself included
NumStrictNotEqual(a, b) == a.nan \/ b.nan \/ a.val # b.val

JsNum(n) == [nan |-> FALSE, val |-> n]

\* listing.tags.join(", ")
RECURSIVE JoinTags(_)
JoinTags(tags) ==
    IF tags = <<>> THEN ""
    ELSE IF Len(tags) = 1 THEN tags[1]
    ELSE tags[1] \o ", " \o JoinTags(Tail(tags))

(***************************************************************************)
(* Listings (ListingItem) and the rows of the Data sheet.                  *)
(***************************************************************************)
\* rows of the Config sheet, in configured order
Queries == <<"Q1", "Q2">>

Ids == {"A", "B"}

\* What the site shows at the time of a run: title, price, browse count.
SiteVersions ==
    { [title |-> <<"r", "m">>,     price |-> 10000, views |-> 5],
      [title |-> <<"r", "m">>,     price |-> 10000, views |-> 999],
      [title |-> <<"r", DQ, "m">>, price |-> 12000, views |-> 5] }

\* One item of extractListingsFromPage for listing `id` found through query `q`.
Listing(id, q, v) ==
    [ id            |-> id,
      title         |-> v.title,
      priceUnit     |-> "per month",
      priceNumber   |-> v.price,
      propertyType  |-> "suite",
      size          |-> "8.5",
      floor         |-> "3F/5F",
      location      |-> "Zhongshan",
      metroDistance |-> "",
      tags          |-> <<"near_subway", "balcony">>,
      agentType     |-> "owner",
      agentName     |-> "Lin",
      updateInfo    |-> "today",
      views         |-> v.views,
      url           |-> "https://rent.591.com.tw/" \o id,
      sourceUrl     |-> q ]

NumCell(n, pattern) == [empty |-> FALSE, value |-> n, pattern |-> pattern]
EmptyNumCell == [empty |-> TRUE, value |-> 0, pattern |-> ""]
EmptyTitleCell == [formula |-> FALSE, url |-> "", label |-> <<>>]

\* A grid row as insertDimension creates it: twenty empty cells.
BlankRow ==
    [ mark |-> "", rating |-> "", remarks |-> "", id |-> "",
      title |-> EmptyTitleCell, price |-> EmptyNumCell,
      propertyType |-> "", size |-> "", floor |-> "", location |-> "",
      metroDistance |-> "", tags |-> "", agentType |-> "", agentName |-> "",
      updateInfo |-> "", views |-> EmptyNumCell, sourceUrl |-> "",
      firstSeen |-> 0, lastUpdated |-> 0, status |-> "" ]

\* The twenty values pushed to newRows for a listing that is not in the sheet.
NewRow(listing, ts) ==
    [ mark |-> "", rating |-> "", remarks |-> "", id |-> listing.id,
      title |-> titleWithLink(listing),
      price |-> NumCell(listing.priceNumber, PRICE_PATTERN),
      propertyType |-> listing.propertyType, size |-> listing.size,
      floor |-> listing.floor, location |-> listing.location,
      metroDistance |-> listing.metroDistance, tags |-> JoinTags(listing.tags),
      agentType |-> listing.agentType, agentName |-> listing.agentName,
      updateInfo |-> listing.updateInfo, views |-> NumCell(listing.views, ""),
      sourceUrl |-> listing.sourceUrl,
      firstSeen |-> ts, lastUpdated |-> ts, status |-> "Active" ]

\* UpdateData with the First Seen entry set to the run's timestamp instead of null
UpdateDataStampingFirstSeen(listing, ts) ==
    [ title |-> titleWithLink(listing),
      price |-> NumCell(listing.priceNumber, PRICE_PATTERN),
      propertyType |-> listing.propertyType, size |-> listing.size,
      floor |-> listing.floor, location |-> listing.location,
      metroDistance |-> listing.metroDistance, tags |-> JoinTags(listing.tags),
      agentType |-> listing.agentType, agentName |-> listing.agentName,
      updateInfo |-> listing.updateInfo, views |-> NumCell(listing.views, ""),
      sourceUrl |-> listing.sourceUrl,
      firstSeen |-> ts, lastUpdated |-> ts, status |-> "Active" ]

\* The data array of rowsToUpdate (columns E-T). The First Seen entry is null
\* and is skipped when the cells are set, so it is no field of this record.
UpdateData(listing, ts) ==
    [ title |-> titleWithLink(listing),
      price |-> NumCell(listing.priceNumber, PRICE_PATTERN),
      propertyType |-> listing.propertyType, size |-> listing.size,
      floor |-> listing.floor, location |-> listing.location,
      metroDistance |-> listing.metroDistance, tags |-> JoinTags(listing.tags),
      agentType |-> listing.agentType, agentName |-> listing.agentName,
      updateInfo |-> listing.updateInfo, views |-> NumCell(listing.views, ""),
      sourceUrl |-> listing.sourceUrl,
      lastUpdated |-> ts, status |-> "Active" ]

\* an Inactive mark that also empties the Views cell
InactiveDataClearingViews(ts) ==
    [lastUpdated |-> ts, status |-> "Inactive", views |-> EmptyNumCell]

\* The two cells set for a row of rowsToInactivate.
InactiveData(ts) == [lastUpdated |-> ts, status |-> "Inactive"]

\* sheet.getCell(rowIndex, col).value = data[col] for every non-null entry
SetCells(row, data) ==
    [f \in DOMAIN row |-> IF f \in DOMAIN data THEN data[f] ELSE row[f]]

\* row.get(header) of a row returned by getRows: displayed values.
RowGet(row) ==
    [ id |-> row.id, title |-> DisplayedTitle(row.title),
      price |-> DisplayedNumber(row.price),
      propertyType |-> row.propertyType, size |-> row.size, floor |-> row.floor,
      location |-> row.location, metroDistance |-> row.metroDistance,
      tags |-> row.tags, agentType |-> row.agentType, agentName |-> row.agentName,
      updateInfo |-> row.updateInfo, sourceUrl |-> row.sourceUrl,
      status |-> row.status ]

\* ids found in the Property ID column
StoredIds(s) == {s[i].id : i \in DOMAIN s} \ {""}

\* getExistingProperties that indexes only the rows whose Status is Active
getActiveProperties(s) ==
    [id \in {s[i].id : i \in {k \in DOMAIN s : s[k].status = "Active"}} \ {""} |->
        LET i == Max({k \in DOMAIN s : s[k].id = id /\ s[k].status = "Active"})
        IN  [row |-> RowGet(s[i]), rowIndex |-> i]]

\* a snapshot whose rowIndex counts only the rows that have an id
getExistingPropertiesSkippingBlanks(s) ==
    [id \in StoredIds(s) |->
        LET i == Max({k \in DOMAIN s : s[k].id = id})
        IN  [row |-> RowGet(s[i]),
             rowIndex |-> Cardinality({k \in 1..i : s[k].id # ""})]]

\* Map id -> {row, rowIndex}; a later row with the same id overwrites the entry.
getExistingProperties(s) ==
    [id \in StoredIds(s) |->
        LET i == Max({k \in DOMAIN s : s[k].id = id})
        IN  [row |-> RowGet(s[i]), rowIndex |-> i]]

\* hasChanges of writeListingsToSheet; Views and Source URL are not compared.
hasChanges(existingRow, listing) ==
    \/ existingRow.title # listing.title
    \/ NumStrictNotEqual(JsNumber(existingRow.price), JsNum(listing.priceNumber))
    \/ existingRow.propertyType # listing.propertyType
    \/ existingRow.size # listing.size
    \/ existingRow.floor # listing.floor
    \/ existingRow.location # listing.location
    \/ existingRow.metroDistance # listing.metroDistance
    \/ existingRow.tags # JoinTags(listing.tags)
    \/ existingRow.agentType # listing.agentType
    \/ existingRow.agentName # listing.agentName
    \/ existingRow.updateInfo # listing.updateInfo
    \/ existingRow.status # "Active"

\* a map whose set() keeps the value of the first entry of a key
MapSetKeepingFirst(m, l) ==
    IF \E i \in DOMAIN m : m[i].id = l.id THEN m ELSE Append(m, l)

\* new Map(allListings.map(l => [l.id, l])): set() keeps the position of the
\* first entry of a key and replaces its value.
MapSet(m, l) ==
    IF \E i \in DOMAIN m : m[i].id = l.id
    THEN [i \in DOMAIN m |-> IF m[i].id = l.id THEN l ELSE m[i]]
    ELSE Append(m, l)

RECURSIVE MapOf(_, _)
MapOf(m, ls) == IF ls = <<>> THEN m ELSE MapOf(MapSet(m, Head(ls)), Tail(ls))

\* uniqueListings = Array.from(new Map(...).values())
Dedup(ls) == MapOf(<<>>, ls)

(***************************************************************************)
(* writeListingsToSheet.                                                   *)
(***************************************************************************)
\* Backend calls of writeListingsToSheet that can fail for good (withRetry
\* throws), in call order; "none": every call succeeds. A loadCells that fails
\* leaves the sheet as the failure of the saveUpdatedCells after it does.
WriteFaults == {"none", "insertDimension", "saveNew", "saveBatch"}

\* every listing pushed to newRows, whether its id is in the sheet or not
newListingsUnfiltered(listings, existing) == listings

\* listings pushed to newRows, in batch order
newListings(listings, existing) ==
    SelectSeq(listings, LAMBDA l : l.id \notin DOMAIN existing)

\* listings pushed to rowsToUpdate, in batch order
changedListings(listings, existing) ==
    SelectSeq(listings, LAMBDA l : /\ l.id \in DOMAIN existing
                                   /\ hasChanges(existing[l.id].row, l))

\* every listing whose id is in the sheet counted as unchanged
unchangedListingsAll(listings, existing) ==
    SelectSeq(listings, LAMBDA l : l.id \in DOMAIN existing)

\* listings counted as unchanged, in batch order
unchangedListings(listings, existing) ==
    SelectSeq(listings, LAMBDA l : /\ l.id \in DOMAIN existing
                                   /\ ~hasChanges(existing[l.id].row, l))

\* rowsToInactivate restricted to the rows whose Source URL is a source of a
\* listing of the batch
rowsToInactivateOfSeenSources(listings, existing) ==
    LET seenIds == {listings[i].id : i \in DOMAIN listings}
        sources == {listings[i].sourceUrl : i \in DOMAIN listings}
        last == IF DOMAIN existing = {} THEN 0
                ELSE Max({existing[id].rowIndex : id \in DOMAIN existing})
    IN  SelectSeq([k \in 1..last |-> k],
                  LAMBDA k : \E id \in DOMAIN existing :
                                /\ existing[id].rowIndex = k
                                /\ id \notin seenIds
                                /\ existing[id].row.status = "Active"
                                /\ existing[id].row.sourceUrl \in sources)

\* row indices of the stored ids that are not in seenIds and are Active
rowsToInactivate(listings, existing) ==
    LET seenIds == {listings[i].id : i \in DOMAIN listings}
        last == IF DOMAIN existing = {} THEN 0
                ELSE Max({existing[id].rowIndex : id \in DOMAIN existing})
    IN  SelectSeq([k \in 1..last |-> k],
                  LAMBDA k : \E id \in DOMAIN existing :
                                /\ existing[id].rowIndex = k
                                /\ id \notin seenIds
                                /\ existing[id].row.status = "Active")

\* row indices applied as they were read, without the shift
shiftAmountZero(newRows) == 0

\* shiftAmount = newRows.length: rows below the insertion move down by it
shiftAmount(newRows) == Len(newRows)

\* sheet.insertDimension("ROWS", {startIndex: 1, endIndex: 1 + n})
insertDimension(s, n) == [i \in 1..n |-> BlankRow] \o s

\* cells of the inserted rows set from newRows, then saved
saveNewRows(s, newRows) ==
    [k \in DOMAIN s |-> IF k <= Len(newRows) THEN SetCells(s[k], newRows[k]) ELSE s[k]]

RECURSIVE applyUpdates(_, _, _)
applyUpdates(s, updates, shift) ==
    IF updates = <<>> THEN s
    ELSE LET u == Head(updates)
             k == u.rowIndex + shift
         IN  applyUpdates([s EXCEPT ![k] = SetCells(s[k], u.data)], Tail(updates), shift)

RECURSIVE applyInactive(_, _, _, _)
applyInactive(s, indices, shift, ts) ==
    IF indices = <<>> THEN s
    ELSE LET k == Head(indices) + shift
         IN  applyInactive([s EXCEPT ![k] = SetCells(s[k], InactiveData(ts))],
                           Tail(indices), shift, ts)

\* The fault can occur in this run: the failing call is made.
FaultApplies(fault, nNew, nBatch) ==
    \/ fault = "none"
    \/ fault \in {"insertDimension", "saveNew"} /\ nNew > 0
    \/ fault = "saveBatch" /\ nBatch > 0

\* What the call decides (the counters it returns and the ids behind each of
\* them) and, for each backend call that can fail for good, whether the call
\* is made in this run and the sheet that is left when it throws there
\* ("none": the sheet when the function returns).
writeListingsToSheet(s, listings, existing, ts) ==
    LET idsOf(ls) == {ls[i].id : i \in DOMAIN ls}
        news     == newListings(listings, existing)
        changed  == changedListings(listings, existing)
        same     == unchangedListings(listings, existing)
        inactive == rowsToInactivate(listings, existing)
        newRows  == [i \in DOMAIN news |-> NewRow(news[i], ts)]
        updates  == [i \in DOMAIN changed |->
                        [rowIndex |-> existing[changed[i].id].rowIndex,
                         data |-> UpdateData(changed[i], ts)]]
        n        == Len(newRows)
        shift    == IF n > 0 THEN shiftAmount(newRows) ELSE 0
        inserted == IF n > 0 THEN insertDimension(s, n) ELSE s
        withNew  == IF n > 0 THEN saveNewRows(inserted, newRows) ELSE s
    IN  [ applies |-> [fault \in WriteFaults |->
                             FaultApplies(fault, n, Len(updates) + Len(inactive))],
          sheet  |-> [fault \in WriteFaults |->
                        CASE fault = "insertDimension" -> s
                          [] fault = "saveNew" -> inserted
                          [] fault = "saveBatch" -> withNew
                          [] OTHER -> applyInactive(applyUpdates(withNew, updates, shift),
                                                    inactive, shift, ts)],
          counts |-> [ seen |-> idsOf(listings),
                       added |-> n, updated |-> Len(updates),
                       unchanged |-> Len(same), inactive |-> Len(inactive),
                       addedIds |-> idsOf(news),
                       updatedIds |-> idsOf(changed),
                       unchangedIds |-> idsOf(same),
                       retiredIds |-> {id \in DOMAIN existing :
                                         existing[id].rowIndex \in Range(inactive)} ] ]

(***************************************************************************)
(* processSheet: one run of the pipeline for one store.                    *)
(***************************************************************************)
\* Results of crawlUrl for a query: the ids it lists at the time of the run.
\* The first query can list "A" or both ids, the second one only "B".
IdSeqs(q) ==
    IF q = Queries[1] THEN {<<>>, <<"A">>, <<"A", "B">>}
    ELSE {<<>>, <<"B">>}

CrawlResult(q, ids, v) == [i \in DOMAIN ids |-> Listing(ids[i], q, v)]

\* activeUrls of ensureConfigSheet: the rows of the Config sheet set to Active
UrlChoices == {<<>>, <<Queries[1]>>, <<Queries[2]>>, Queries}

NoVersion == [title |-> <<>>, price |-> 0, views |-> 0]

\* result before the first run
NoRun ==
    [ ran |-> FALSE, ok |-> FALSE, urls |-> <<>>, idseqs |-> <<>>, site |-> NoVersion,
      fault |-> "none", repeat |-> FALSE, wrote |-> FALSE, seen |-> {},
      added |-> 0, updated |-> 0, unchanged |-> 0, inactive |-> 0,
      addedIds |-> {}, updatedIds |-> {}, unchangedIds |-> {}, retiredIds |-> {} ]

\* crawled[i] is what crawlUrl returned for urls[i]
processSheet(s, urls, crawled, ts) ==
    LET existingProperties == getExistingProperties(s)
        crawledAll     == Flatten(crawled)
        uniqueListings == Dedup(crawledAll)
    IN  writeListingsToSheet(s, uniqueListings, existingProperties, ts)

\* uniqueListings of the run that `r` describes
BatchOf(r) ==
    Dedup(Flatten([i \in DOMAIN r.urls |-> CrawlResult(r.urls[i], r.idseqs[i], r.site)]))

\* no partial run yet
NoScenario ==
    [urls |-> <<>>, listed |-> <<>>, reached |-> <<>>, site |-> NoVersion,
     fault |-> "none", cause |-> "none"]

\* A run whose Config sheet has no Active row: ensureConfigSheet throws before
\* the Data sheet is read.
RunNoUrls ==
    /\ now < MaxRuns
    /\ now' = now + 1
    /\ sheet' = sheet
    /\ result' = [NoRun EXCEPT !.ran = TRUE, !.fault = "config"]
    /\ lastOp' = "run"
    /\ UNCHANGED <<scPhase, scBefore, scRun, dedupVars, crawlVars, mainVars, writeVars, pageVars, runVars>>

\* A run with at least one Active query.
RunStore ==
    /\ now < MaxRuns
    /\ \E urls \in UrlChoices \ {<<>>}, v \in SiteVersions :
       \E idseqs \in [DOMAIN urls -> UNION {IdSeqs(q) : q \in Range(Queries)}] :
          /\ \A i \in DOMAIN urls : idseqs[i] \in IdSeqs(urls[i])
          /\ \E run \in {processSheet(sheet, urls,
                            [i \in DOMAIN urls |-> CrawlResult(urls[i], idseqs[i], v)],
                            now + 1)} :
             \E fault \in WriteFaults :
                /\ run.applies[fault]
                /\ now' = now + 1
                /\ sheet' = run.sheet[fault]
                /\ result' =
                      IF fault = "none"
                      THEN [ ran |-> TRUE, ok |-> TRUE, urls |-> urls,
                             idseqs |-> idseqs, site |-> v, fault |-> fault,
                             repeat |-> /\ result.ok
                                        /\ result.urls = urls
                                        /\ result.idseqs = idseqs
                                        /\ result.site = v,
                             wrote |-> run.sheet[fault] # sheet ] @@ run.counts
                      ELSE \* the call threw: nothing is returned
                           [NoRun EXCEPT !.ran = TRUE, !.fault = fault,
                                         !.wrote = (run.sheet[fault] # sheet)]
                /\ lastOp' = "run"
    /\ UNCHANGED <<scPhase, scBefore, scRun,
                   dedupVars, crawlVars, mainVars, writeVars, pageVars, runVars>>

\* The curator fills the three user columns of a data row.
UserEdit ==
    /\ Cardinality({i \in DOMAIN sheet : sheet[i].mark # ""}) < MaxEdits
    /\ \E i \in DOMAIN sheet :
          /\ sheet[i].id # ""
          /\ sheet[i].mark = ""
          /\ sheet' = [sheet EXCEPT ![i] =
                          SetCells(sheet[i], [mark |-> "x", rating |-> "5",
                                              remarks |-> "call"])]
    /\ lastOp' = "edit"
    /\ UNCHANGED <<now, result, scPhase, scBefore, scRun,
                   dedupVars, crawlVars, mainVars, writeVars, pageVars, runVars>>

(***************************************************************************)
(* Runs that are partial: a run whose writeListingsToSheet throws and the  *)
(* run that follows it, and a run whose crawl of a query was cut short.    *)
(***************************************************************************)
\* crawlUrl of each url: what it returned
Crawled(urls, idseqs, v) == [i \in DOMAIN urls |-> CrawlResult(urls[i], idseqs[i], v)]

\* The ways crawlUrl returns before it has seen every page of the query: a
\* challenge page read as "No more listings", an error whose message says
\* "timed out", a page that used all its attempts, MAX_ITEMS_PER_URL reached,
\* MAX_PAGES_PER_URL reached.
CutCauses == {"blocked", "timed out", "retries exhausted", "item budget", "page budget"}

\* the proper prefixes of ids: what a crawl that was cut short returns
ProperPrefixes(ids) == {SubSeq(ids, 1, k) : k \in 0..(Len(ids) - 1)}

\* the result record of a run that returned
Succeeded(urls, idseqs, v, run, before) ==
    [ ran |-> TRUE, ok |-> TRUE, urls |-> urls, idseqs |-> idseqs, site |-> v,
      fault |-> "none", repeat |-> FALSE,
      wrote |-> run.sheet["none"] # before ] @@ run.counts

\* A run on the sheet left by earlier runs, before any partial run.
SeedRun ==
    /\ scPhase = "none"
    /\ RunStore

\* The curator annotates a row, before any partial run.
SeedEdit ==
    /\ scPhase = "none"
    /\ UserEdit

\* A run whose writeListingsToSheet throws: insertDimension failed, or the
\* saveUpdatedCells of the new rows, or the one of the batch.
RunStoreFails ==
    /\ scPhase = "none"
    /\ now < MaxRuns
    /\ \E urls \in UrlChoices \ {<<>>}, v \in SiteVersions :
       \E idseqs \in [DOMAIN urls -> UNION {IdSeqs(q) : q \in Range(Queries)}] :
          /\ \A i \in DOMAIN urls : idseqs[i] \in IdSeqs(urls[i])
          /\ \E run \in {processSheet(sheet, urls, Crawled(urls, idseqs, v), now + 1)} :
             \E fault \in WriteFaults \ {"none"} :
                /\ run.applies[fault]
                /\ now' = now + 1
                /\ sheet' = run.sheet[fault]
                /\ result' = [NoRun EXCEPT !.ran = TRUE, !.fault = fault,
                                           !.wrote = (run.sheet[fault] # sheet)]
                /\ scRun' = [urls |-> urls, listed |-> idseqs, reached |-> idseqs,
                             site |-> v, fault |-> fault, cause |-> "none"]
    /\ lastOp' = "run"
    /\ scBefore' = sheet
    /\ scPhase' = "failed"
    /\ UNCHANGED <<dedupVars, crawlVars, mainVars, writeVars, pageVars, runVars>>

\* The run after the failed one: the same urls list the same records and
\* writeListingsToSheet returns.
RunStoreAgain ==
    /\ scPhase = "failed"
    /\ \E run \in {processSheet(sheet, scRun.urls,
                                 Crawled(scRun.urls, scRun.reached, scRun.site),
                                 now + 1)} :
          /\ sheet' = run.sheet["none"]
          /\ result' = Succeeded(scRun.urls, scRun.reached, scRun.site, run, sheet)
    /\ now' = now + 1
    /\ lastOp' = "run"
    /\ scPhase' = "recovered"
    /\ UNCHANGED <<scBefore, scRun,
                   dedupVars, crawlVars, mainVars, writeVars, pageVars, runVars>>

\* A run in which crawlUrl returned, for at least one url, fewer records than
\* the query lists, and writeListingsToSheet returns.
RunStoreCutShort ==
    /\ scPhase = "none"
    /\ now < MaxRuns
    /\ \E urls \in UrlChoices \ {<<>>}, v \in SiteVersions, cause \in CutCauses :
       \E listed \in [DOMAIN urls -> UNION {IdSeqs(q) : q \in Range(Queries)}] :
          /\ \A i \in DOMAIN urls : listed[i] \in IdSeqs(urls[i])
          /\ \E reached \in [DOMAIN urls ->
                                UNION {IdSeqs(q) : q \in Range(Queries)}] :
                /\ \A i \in DOMAIN urls :
                      reached[i] \in ProperPrefixes(listed[i]) \cup {listed[i]}
                /\ \E i \in DOMAIN urls : reached[i] # listed[i]
                /\ \E run \in {processSheet(sheet, urls, Crawled(urls, reached, v),
                                             now + 1)} :
                      /\ sheet' = run.sheet["none"]
                      /\ result' = Succeeded(urls, reached, v, run, sheet)
                /\ scRun' = [urls |-> urls, listed |-> listed, reached |-> reached,
                             site |-> v, fault |-> "none", cause |-> cause]
    /\ now' = now + 1
    /\ lastOp' = "run"
    /\ scBefore' = sheet
    /\ scPhase' = "cut"
    /\ UNCHANGED <<dedupVars, crawlVars, mainVars, writeVars, pageVars, runVars>>

(***************************************************************************)
(* De-duplication of processSheet on its own.                              *)
(***************************************************************************)
\* records a crawl can return
Catalogue == {Listing(id, q, v) : id \in Ids, q \in Range(Queries), v \in SiteVersions}

\* sequences of length at most n over S
SeqsUpTo(S, n) == UNION {[1..k -> S] : k \in 0..n}

InitDedup ==
    /\ ddIn \in SeqsUpTo(Catalogue, MaxCrawled)
    /\ ddOut = <<>>
    /\ ddDone = FALSE

\* uniqueListings = Array.from(new Map(allListings.map(...)).values())
Deduplicate ==
    /\ ~ddDone
    /\ ddOut' = Dedup(ddIn)
    /\ ddDone' = TRUE
    /\ UNCHANGED <<ddIn, storeVars, crawlVars, mainVars, writeVars, pageVars, runVars>>

(***************************************************************************)
(* crawlUrl: pages of one query.                                           *)
(***************************************************************************)
\* bound of the random part of a delay: Math.floor(Math.random() * 4000)
JITTER_MS == 4000

\* values of the random part explored: its least and its greatest value
Jitters == {0, JITTER_MS - 1}

EXPECTED_ORIGIN == "https://rent.591.com.tw/"

\* the url of the page being fetched, and urls a response can end at
PageUrl(n) == [origin |-> EXPECTED_ORIGIN, path |-> <<"list", n>>]
FinalUrls(n) ==
    { PageUrl(n),
      [origin |-> EXPECTED_ORIGIN, path |-> <<"home", 0>>],
      [origin |-> "https://www.591.com.tw/", path |-> <<"verify", 0>>] }

\* error messages, as the words that message.includes() can find
OuterTimeoutMessage == <<"Page", "timed out", "after", "60000ms">>
GotoTimeoutMessage == <<"page.goto:", "Timeout", "30000ms", "exceeded.">>
NetErrorMessage == <<"page.goto:", "net::ERR_CONNECTION_RESET">>

\* message.includes("timed out")
includesTimedOut(message) == "timed out" \in Range(message)

NoResponse == [kind |-> "null", status |-> 0, finalUrl |-> PageUrl(0), message |-> <<>>]

\* what page.goto can give for page n: a response, null, or an exception
NavResults(n) ==
    {NoResponse}
    \cup {[kind |-> "response", status |-> st, finalUrl |-> u, message |-> <<>>] :
             st \in {200, 403, 429}, u \in FinalUrls(n)}
    \cup {[kind |-> "throw", status |-> 0, finalUrl |-> PageUrl(0), message |-> m] :
             m \in {GotoTimeoutMessage, NetErrorMessage}}

\* numbers of items in the embedded data of a page (0: no data)
PageItemCounts == {0, 12, 30}

\* One page attempt as the environment decides it: the navigation, the items
\* of the loaded page, and whether the outer timer wins the race.
AttemptInputs(n) ==
    {[nav |-> nv, items |-> k, outer |-> FALSE] :
        nv \in NavResults(n), k \in PageItemCounts}
    \cup {[nav |-> NoResponse, items |-> 0, outer |-> TRUE]}

NoAttempt == [nav |-> NoResponse, items |-> 0, outer |-> FALSE, page |-> 0]

\* detectChallengePage without the check of status 429
detectChallengePageWithout429(nav, url) ==
    \/ nav.kind = "null"
    \/ nav.status = 403
    \/ (nav.finalUrl # url /\ nav.finalUrl.origin # EXPECTED_ORIGIN)

\* detectChallengePage(response, page, url).blocked
detectChallengePage(nav, url) ==
    \/ nav.kind = "null"
    \/ nav.status = 403
    \/ nav.status = 429
    \/ (nav.finalUrl # url /\ nav.finalUrl.origin # EXPECTED_ORIGIN)

\* records of page n: item i of the page is <<n, i>>
PageRecords(n, k) == [i \in 1..k |-> <<n, i>>]

\* The race of a page attempt: the listings it resolves to, or the message of
\* the error it rejects with.
AttemptResult(in, n) ==
    IF in.outer THEN [threw |-> TRUE, message |-> OuterTimeoutMessage, listings |-> <<>>]
    ELSE IF in.nav.kind = "throw"
         THEN [threw |-> TRUE, message |-> in.nav.message, listings |-> <<>>]
    ELSE IF detectChallengePage(in.nav, PageUrl(n))
         THEN [threw |-> FALSE, message |-> <<>>, listings |-> <<>>]
    ELSE [threw |-> FALSE, message |-> <<>>, listings |-> PageRecords(n, in.items)]

\* the listings of a page pushed once per attempt made for it
pushListingsTwice(all, listings) == all \o listings \o listings

\* allListings.push(...listings)
pushListings(all, listings) == all \o listings

\* a delay that is only its random part
DelaysWithoutBase == Jitters

\* const delay = CONFIG.REQUEST_DELAY_MS + Math.floor(Math.random() * 4000)
Delays == {REQUEST_DELAY_MS + j : j \in Jitters}

StartCrawl ==
    /\ pc = "idle"
    /\ pc' = "pageLoop"
    /\ pageNum' = 1
    /\ allListings' = <<>>
    /\ UNCHANGED <<attempt, succeeded, returned, lastOutcome, lastFetch,
                   failedTries, okPages, slept, storeVars, dedupVars,
                   mainVars, writeVars, pageVars, runVars>>

\* the page loop running one page past MAX_PAGES_PER_URL
PageLoopHeadOnePageMore ==
    /\ pc = "pageLoop"
    /\ IF pageNum > MAX_PAGES_PER_URL + 1
          \/ (MAX_ITEMS_PER_URL > 0 /\ Len(allListings) >= MAX_ITEMS_PER_URL)
       THEN /\ pc' = "applyLimit"
            /\ UNCHANGED <<attempt, succeeded, failedTries>>
       ELSE /\ pc' = "attemptLoop"
            /\ attempt' = 1
            /\ succeeded' = FALSE
            /\ failedTries' = 0
    /\ UNCHANGED <<pageNum, allListings, returned, lastOutcome, lastFetch,
                   okPages, slept, storeVars, dedupVars, mainVars, writeVars, pageVars, runVars>>

\* Head of the page loop: the loop condition and the item limit check.
PageLoopHead ==
    /\ pc = "pageLoop"
    /\ IF pageNum > MAX_PAGES_PER_URL
          \/ (MAX_ITEMS_PER_URL > 0 /\ Len(allListings) >= MAX_ITEMS_PER_URL)
       THEN /\ pc' = "applyLimit"
            /\ UNCHANGED <<attempt, succeeded, failedTries>>
       ELSE /\ pc' = "attemptLoop"
            /\ attempt' = 1
            /\ succeeded' = FALSE
            /\ failedTries' = 0
    /\ UNCHANGED <<pageNum, allListings, returned, lastOutcome, lastFetch,
                   okPages, slept, storeVars, dedupVars,
                   mainVars, writeVars, pageVars, runVars>>

\* the attempt loop making one attempt more than PAGE_RETRY_COUNT
AttemptLoopHeadOneAttemptMore ==
    /\ pc = "attemptLoop"
    /\ IF attempt > PAGE_RETRY_COUNT + 1
       THEN /\ pc' = "afterAttempts"
            /\ UNCHANGED slept
       ELSE /\ pc' = "fetch"
            /\ IF attempt > 1
               THEN \E d \in Delays : slept' = d
               ELSE UNCHANGED slept
    /\ UNCHANGED <<pageNum, attempt, allListings, succeeded, returned, lastOutcome,
                   lastFetch, failedTries, okPages, storeVars, dedupVars,
                   mainVars, writeVars, pageVars, runVars>>

\* Head of the attempt loop: the loop condition and the delay before a retry.
AttemptLoopHead ==
    /\ pc = "attemptLoop"
    /\ IF attempt > PAGE_RETRY_COUNT
       THEN /\ pc' = "afterAttempts"
            /\ UNCHANGED slept
       ELSE /\ pc' = "fetch"
            /\ IF attempt > 1
               THEN \E d \in Delays : slept' = d
               ELSE UNCHANGED slept
    /\ UNCHANGED <<pageNum, attempt, allListings, succeeded, returned, lastOutcome,
                   lastFetch, failedTries, okPages, storeVars, dedupVars,
                   mainVars, writeVars, pageVars, runVars>>

\* context.newPage() rejects: the call is made before the try block, so the
\* error leaves crawlUrl and nothing is returned.
NewPageFails ==
    /\ pc = "fetch"
    /\ pc' = "thrown"
    /\ UNCHANGED <<pageNum, attempt, allListings, succeeded, returned, lastOutcome,
                   lastFetch, failedTries, okPages, slept, storeVars, dedupVars,
                   mainVars, writeVars, pageVars, runVars>>

\* One page attempt on a page that newPage opened: the race, the handling of
\* its result, page.close.
PageAttempt ==
    /\ pc = "fetch"
    /\ \E in \in AttemptInputs(pageNum) :
          LET r == AttemptResult(in, pageNum)
          IN  /\ lastOutcome' = [nav |-> in.nav, items |-> in.items,
                                 outer |-> in.outer, page |-> pageNum]
              /\ lastFetch' = <<pageNum, attempt>>
              /\ IF ~r.threw /\ Len(r.listings) = 0
                 THEN \* "No more listings, stopping."
                      /\ returned' = allListings
                      /\ pc' = "done"
                      /\ UNCHANGED <<allListings, succeeded, attempt, failedTries, okPages>>
                 ELSE IF ~r.threw
                 THEN /\ allListings' = pushListings(allListings, r.listings)
                      /\ succeeded' = TRUE
                      /\ okPages' = Append(okPages, [page |-> pageNum, attempt |-> attempt,
                                                     items |-> Len(r.listings)])
                      /\ pc' = "afterAttempts"
                      /\ UNCHANGED <<returned, attempt, failedTries>>
                 ELSE IF includesTimedOut(r.message)
                 THEN \* "Skipping remaining pages for this URL."
                      /\ returned' = allListings
                      /\ pc' = "done"
                      /\ UNCHANGED <<allListings, succeeded, attempt, failedTries, okPages>>
                 ELSE /\ attempt' = attempt + 1
                      /\ failedTries' = failedTries + 1
                      /\ pc' = "attemptLoop"
                      /\ UNCHANGED <<allListings, succeeded, returned, okPages>>
    /\ slept' = 0
    /\ UNCHANGED <<pageNum, storeVars, dedupVars,
                   mainVars, writeVars, pageVars, runVars>>

\* After the attempt loop: the between-page delay, then pageNum++.
AfterAttempts ==
    /\ pc = "afterAttempts"
    /\ IF succeeded /\ pageNum < MAX_PAGES_PER_URL
       THEN \E d \in Delays : slept' = d
       ELSE UNCHANGED slept
    /\ pageNum' = pageNum + 1
    /\ pc' = "pageLoop"
    /\ UNCHANGED <<attempt, allListings, succeeded, returned, lastOutcome, lastFetch,
                   failedTries, okPages, storeVars, dedupVars,
                   mainVars, writeVars, pageVars, runVars>>

\* the end of crawlUrl returning everything collected, untrimmed
ApplyItemLimitWithoutTrim ==
    /\ pc = "applyLimit"
    /\ returned' = allListings
    /\ pc' = "done"
    /\ UNCHANGED <<pageNum, attempt, allListings, succeeded, lastOutcome, lastFetch,
                   failedTries, okPages, slept, storeVars, dedupVars,
                   mainVars, writeVars, pageVars, runVars>>

\* After the page loop: the item limit applied to the result.
ApplyItemLimit ==
    /\ pc = "applyLimit"
    /\ returned' = IF MAX_ITEMS_PER_URL > 0 /\ Len(allListings) > MAX_ITEMS_PER_URL
                   THEN SubSeq(allListings, 1, MAX_ITEMS_PER_URL)
                   ELSE allListings
    /\ pc' = "done"
    /\ UNCHANGED <<pageNum, attempt, allListings, succeeded, lastOutcome, lastFetch,
                   failedTries, okPages, slept, storeVars, dedupVars,
                   mainVars, writeVars, pageVars, runVars>>

(***************************************************************************)
(* One page attempt of crawlUrl, step by step: context.newPage(), the race *)
(* between the inner steps (page.goto, detectChallengePage, waitForSelector,*)
(* extractListingsFromPage) and the outer timer, the handling of what the  *)
(* race settled to, and the finally block closing the page.                *)
(***************************************************************************)
PAGE_GOTO_TIMEOUT_MS == 30000
PAGE_SELECTOR_TIMEOUT_MS == 10000
NETWORK_IDLE_TIMEOUT_MS == 15000
PAGE_CRAWL_TIMEOUT_MS == 60000
\* new Promise((r) => setTimeout(r, 5000)) raced against page.close()
PAGE_CLOSE_GRACE_MS == 5000

\* the awaits inside the race, in the order of the code; "evaluate" stands
\* for page.evaluate of __NUXT__ and, when it gives nothing, the calls of
\* detectChallengeContent, none of which has a timeout
RaceSteps == {"goto", "selector", "networkidle", "evaluate"}

\* the steps that were given a timeout option
hasTimeout(step) == step \in {"goto", "selector", "networkidle"}

stepTimeout(step) ==
    CASE step = "goto" -> PAGE_GOTO_TIMEOUT_MS
      [] step = "selector" -> PAGE_SELECTOR_TIMEOUT_MS
      [] step = "networkidle" -> NETWORK_IDLE_TIMEOUT_MS

\* durations (ms) explored for a step that settles by itself: a short one and
\* the longest below its timeout (for evaluate: one that fits after the
\* longest waits and one that does not)
StepDurations(step) ==
    CASE step = "goto" -> {800, PAGE_GOTO_TIMEOUT_MS - 1}
      [] step = "selector" -> {300, PAGE_SELECTOR_TIMEOUT_MS - 1}
      [] step = "networkidle" -> {1500, NETWORK_IDLE_TIMEOUT_MS - 1}
      [] step = "evaluate" -> {50, PAGE_CLOSE_GRACE_MS + 1}

\* durations (ms) explored for a page.close() that settles within the grace
CloseDurations == {20, PAGE_CLOSE_GRACE_MS - 1}

\* a step that started at aElapsed settles by itself after d ms: before its
\* own timeout and before the outer timer
CanSettle(step, d) ==
    /\ aElapsed + d < PAGE_CRAWL_TIMEOUT_MS
    /\ hasTimeout(step) => d < stepTimeout(step)

\* the timeout of the step fires before the outer timer does
OwnTimerFirst(step) ==
    hasTimeout(step) /\ aElapsed + stepTimeout(step) < PAGE_CRAWL_TIMEOUT_MS

SelectorTimeoutMessage == <<"page.waitForSelector:", "Timeout", "10000ms", "exceeded.">>
IdleTimeoutMessage == <<"page.waitForLoadState:", "Timeout", "15000ms", "exceeded.">>
WaitErrorMessage == <<"Target", "page", "has been closed">>
EvaluateErrorMessage == <<"page.evaluate:", "Execution context was destroyed">>

\* items in the embedded data of a loaded page (0: __NUXT__ has no items)
EmbeddedItemCounts == {0, 12}

NoWaits == [selector |-> "none", idle |-> "none"]
NoRace == [settled |-> FALSE, threw |-> FALSE, message |-> <<>>, items |-> 0,
           outer |-> FALSE]
Resolved(k) == [settled |-> TRUE, threw |-> FALSE, message |-> <<>>, items |-> k,
                outer |-> FALSE]
Rejected(msg, byOuter) == [settled |-> TRUE, threw |-> TRUE, message |-> msg,
                           items |-> 0, outer |-> byOuter]

\* what page.goto can give by itself (its timeout is the timer's step)
GotoResults == {nv \in NavResults(1) : nv.message # GotoTimeoutMessage}

\* What crawlUrl makes of the settled race: the records are pushed
\* ("success"), crawlUrl returns because nothing was found ("empty") or
\* because the message says "timed out" ("timeout"), or the attempt loop goes
\* on ("error").
attemptOutcome(race) ==
    IF ~race.threw
    THEN IF race.items = 0 THEN "empty" ELSE "success"
    ELSE IF includesTimedOut(race.message) THEN "timeout" ELSE "error"

\* a wait whose rejection is not caught
waitRethrown(res) == IF res = "ok" THEN "proceed" ELSE "throw"

\* page.waitForSelector(...).catch(() => {})
selectorWaitCaught(res) == "proceed"

\* page.waitForLoadState("networkidle", ...).catch(() => { console.log(...) })
networkIdleWaitCaught(res) == "proceed"

\* a finally block that closes the page only when the try block returned
finallyCloseOnReturn(race) == IF race.threw THEN "none" ELSE "initiated"

\* finally { await Promise.race([page.close(), ...]) }: page.close() is called
\* whatever the try block did
finallyClose(race) == "initiated"

\* The race settles: crawlUrl handles the result and enters the finally block.
Settle(race) ==
    /\ aRace' = race
    /\ aClose' = finallyClose(race)
    /\ aPc' = IF finallyClose(race) = "initiated" THEN "closing" ELSE "ended"

InitPage ==
    /\ aPc = "newPage"
    /\ aOpened = FALSE
    /\ aElapsed = 0
    /\ aNav = NoResponse
    /\ aData = 0
    /\ aWaits = NoWaits
    /\ aExtract = "none"
    /\ aRace = NoRace
    /\ aClose = "none"
    /\ aCloseMs = 0
    /\ aPending = "none"
    /\ aQuery = 1

\* const page = await context.newPage() resolves; the race starts.
NewPageOpens ==
    /\ aPc = "newPage"
    /\ aPc' = "goto"
    /\ aOpened' = TRUE
    /\ UNCHANGED <<aElapsed, aNav, aData, aWaits, aExtract, aRace, aClose, aCloseMs,
                   aPending, aQuery,
                   storeVars, dedupVars, crawlVars, mainVars, writeVars, runVars>>

\* context.newPage() rejects, before the try block: no page, no finally.
NewPageRejects ==
    /\ aPc = "newPage"
    /\ aPc' = "thrown"
    /\ UNCHANGED <<aOpened, aElapsed, aNav, aData, aWaits, aExtract, aRace, aClose,
                   aCloseMs, aPending, aQuery, storeVars, dedupVars, crawlVars, mainVars,
                   writeVars, runVars>>

\* page.goto settles by itself; detectChallengePage on its response.
GotoSettles ==
    /\ aPc = "goto"
    /\ \E nv \in GotoResults, d \in StepDurations("goto"), k \in EmbeddedItemCounts :
          /\ CanSettle("goto", d)
          /\ aNav' = nv
          /\ aElapsed' = aElapsed + d
          /\ IF nv.kind = "throw"
             THEN Settle(Rejected(nv.message, FALSE)) /\ UNCHANGED aData
             ELSE IF detectChallengePage(nv, PageUrl(1))
             THEN Settle(Resolved(0)) /\ UNCHANGED aData
             ELSE /\ aPc' = "selector"
                  /\ aData' = k
                  /\ UNCHANGED <<aRace, aClose>>
    /\ UNCHANGED <<aOpened, aWaits, aExtract, aCloseMs,
                   aPending, aQuery,
                   storeVars, dedupVars, crawlVars, mainVars, writeVars, runVars>>

\* The timeout of page.goto fires: page.goto rejects with a TimeoutError.
GotoTimesOut ==
    /\ aPc = "goto"
    /\ OwnTimerFirst("goto")
    /\ aNav' = [kind |-> "throw", status |-> 0, finalUrl |-> PageUrl(0),
                message |-> GotoTimeoutMessage]
    /\ aElapsed' = aElapsed + stepTimeout("goto")
    /\ Settle(Rejected(GotoTimeoutMessage, FALSE))
    /\ UNCHANGED <<aOpened, aData, aWaits, aExtract, aCloseMs,
                   aPending, aQuery,
                   storeVars, dedupVars, crawlVars, mainVars, writeVars, runVars>>

\* page.waitForSelector settles by itself: the selector appeared, or the wait
\* rejected for another reason than its timeout.
SelectorSettles ==
    /\ aPc = "selector"
    /\ \E res \in {"ok", "rejected"}, d \in StepDurations("selector") :
          /\ CanSettle("selector", d)
          /\ aElapsed' = aElapsed + d
          /\ aWaits' = [aWaits EXCEPT !.selector = res]
          /\ IF selectorWaitCaught(res) = "proceed"
             THEN aPc' = "networkidle" /\ UNCHANGED <<aRace, aClose>>
             ELSE Settle(Rejected(WaitErrorMessage, FALSE))
    /\ UNCHANGED <<aOpened, aNav, aData, aExtract, aCloseMs,
                   aPending, aQuery,
                   storeVars, dedupVars, crawlVars, mainVars, writeVars, runVars>>

\* The timeout of page.waitForSelector fires.
SelectorTimesOut ==
    /\ aPc = "selector"
    /\ OwnTimerFirst("selector")
    /\ aElapsed' = aElapsed + stepTimeout("selector")
    /\ aWaits' = [aWaits EXCEPT !.selector = "timeout"]
    /\ IF selectorWaitCaught("timeout") = "proceed"
       THEN aPc' = "networkidle" /\ UNCHANGED <<aRace, aClose>>
       ELSE Settle(Rejected(SelectorTimeoutMessage, FALSE))
    /\ UNCHANGED <<aOpened, aNav, aData, aExtract, aCloseMs,
                   aPending, aQuery,
                   storeVars, dedupVars, crawlVars, mainVars, writeVars, runVars>>

\* extractListingsFromPage: page.waitForLoadState("networkidle") settles by
\* itself; page.evaluate is called next.
NetworkIdleSettles ==
    /\ aPc = "networkidle"
    /\ \E res \in {"ok", "rejected"}, d \in StepDurations("networkidle") :
          /\ CanSettle("networkidle", d)
          /\ aElapsed' = aElapsed + d
          /\ aWaits' = [aWaits EXCEPT !.idle = res]
          /\ IF networkIdleWaitCaught(res) = "proceed"
             THEN aPc' = "evaluate" /\ aExtract' = "started"
                  /\ UNCHANGED <<aRace, aClose>>
             ELSE Settle(Rejected(WaitErrorMessage, FALSE)) /\ UNCHANGED aExtract
    /\ UNCHANGED <<aOpened, aNav, aData, aCloseMs,
                   aPending, aQuery,
                   storeVars, dedupVars, crawlVars, mainVars, writeVars, runVars>>

\* The timeout of the networkidle wait fires; page.evaluate is called next.
NetworkIdleTimesOut ==
    /\ aPc = "networkidle"
    /\ OwnTimerFirst("networkidle")
    /\ aElapsed' = aElapsed + stepTimeout("networkidle")
    /\ aWaits' = [aWaits EXCEPT !.idle = "timeout"]
    /\ IF networkIdleWaitCaught("timeout") = "proceed"
       THEN aPc' = "evaluate" /\ aExtract' = "started"
            /\ UNCHANGED <<aRace, aClose>>
       ELSE Settle(Rejected(IdleTimeoutMessage, FALSE)) /\ UNCHANGED aExtract
    /\ UNCHANGED <<aOpened, aNav, aData, aCloseMs,
                   aPending, aQuery,
                   storeVars, dedupVars, crawlVars, mainVars, writeVars, runVars>>

\* page.evaluate settles by itself: the items of the embedded data are mapped
\* and returned ([] when there are none), or the evaluation rejects.
EvaluateSettles ==
    /\ aPc = "evaluate"
    /\ \E res \in {"returned", "threw"}, d \in StepDurations("evaluate") :
          /\ CanSettle("evaluate", d)
          /\ aElapsed' = aElapsed + d
          /\ aExtract' = res
          /\ Settle(IF res = "returned" THEN Resolved(aData)
                    ELSE Rejected(EvaluateErrorMessage, FALSE))
    /\ UNCHANGED <<aOpened, aNav, aData, aWaits, aCloseMs,
                   aPending, aQuery,
                   storeVars, dedupVars, crawlVars, mainVars, writeVars, runVars>>

\* Promise.race([(async () => {...})(), timer]): the async function is not
\* cancelled when the timer wins; the step it was awaiting stays pending
leftPending(step) == step

\* an outer timer that never fires
OuterTimerNeverFires ==
    /\ FALSE
    /\ UNCHANGED vars

\* The outer timer of the race fires while an inner step is pending: the race
\* rejects with "Page N timed out after 60000ms".
OuterTimerFires ==
    /\ aPc \in RaceSteps
    /\ ~OwnTimerFirst(aPc)
    /\ aElapsed' = PAGE_CRAWL_TIMEOUT_MS
    /\ Settle(Rejected(OuterTimeoutMessage, TRUE))
    /\ aPending' = leftPending(aPc)
    /\ UNCHANGED <<aOpened, aNav, aData, aWaits, aExtract, aCloseMs,
                   aQuery,
                   storeVars, dedupVars, crawlVars, mainVars, writeVars, runVars>>

\* finally: page.close() settles within the grace; a rejection is swallowed
\* by .catch(() => {}).
PageCloseSettles ==
    /\ aPc = "closing"
    /\ \E res \in {"closed", "rejected"}, d \in CloseDurations :
          /\ aClose' = res
          /\ aCloseMs' = d
          /\ aPending' = IF res = "closed" THEN "none" ELSE aPending
    /\ aPc' = "ended"
    /\ UNCHANGED <<aOpened, aElapsed, aNav, aData, aWaits, aExtract, aRace,
                   aQuery,
                   storeVars, dedupVars, crawlVars, mainVars, writeVars, runVars>>

\* finally: the 5000 ms timer wins the race against page.close().
CloseGraceTimerFires ==
    /\ aPc = "closing"
    /\ aClose' = "abandoned"
    /\ aCloseMs' = PAGE_CLOSE_GRACE_MS
    /\ aPc' = "ended"
    /\ UNCHANGED <<aOpened, aElapsed, aNav, aData, aWaits, aExtract, aRace,
                   aPending, aQuery,
                   storeVars, dedupVars, crawlVars, mainVars, writeVars, runVars>>

\* The step a timed-out attempt left pending settles at last (a page.evaluate
\* that returns, a navigation that ends); nobody awaits its result.
PendingStepSettles ==
    /\ aPending # "none"
    /\ aPending' = "none"
    /\ UNCHANGED <<aPc, aOpened, aElapsed, aNav, aData, aWaits, aExtract, aRace, aClose,
                   aCloseMs, aQuery,
                   storeVars, dedupVars, crawlVars, mainVars, writeVars, runVars>>

\* processSheet goes on to the next url: crawlUrl calls context.newPage() on
\* the same browser context for the first page of the next query.
NextQueryStarts ==
    /\ aPc = "ended"
    /\ aQuery < Len(Queries)
    /\ aQuery' = aQuery + 1
    /\ aPc' = "newPage"
    /\ aOpened' = FALSE
    /\ aElapsed' = 0
    /\ aNav' = NoResponse
    /\ aData' = 0
    /\ aWaits' = NoWaits
    /\ aExtract' = "none"
    /\ aRace' = NoRace
    /\ aClose' = "none"
    /\ aCloseMs' = 0
    /\ UNCHANGED <<aPending,
                   storeVars, dedupVars, crawlVars, mainVars, writeVars, runVars>>

(***************************************************************************)
(* main: one store after the other.                                        *)
(***************************************************************************)
\* names getSheetConfigs derives from the GOOGLE_SHEETS_ID* variables
StoreNames == {"default", "a"}

\* What processSheet does for one store: it returns, or it throws (no Active
\* URL in the Config sheet, a Sheets call that failed for good).
ProcessOutcomes == {"returned", "No active URLs configured", "saveUpdatedCells failed"}

InitMain ==
    /\ sheetConfigs \in SeqsUpTo(StoreNames, MaxStores)
    /\ mainPc = "start"
    /\ mainIdx = 0
    /\ started = <<>>
    /\ results = <<>>
    /\ exitStatus = -1

\* process.exit(1) of the catch of main(): an error left main
ExitFailure == 1

\* process.exit(0) of the then of main()
ExitSuccess == 0

\* main up to the loop: with no sheet configured it throws at once.
MainStart ==
    /\ mainPc = "start"
    /\ IF Len(sheetConfigs) = 0
       THEN /\ mainPc' = "exit"
            /\ exitStatus' = ExitFailure
            /\ UNCHANGED mainIdx
       ELSE /\ mainPc' = "loop"
            /\ mainIdx' = 1
            /\ UNCHANGED exitStatus
    /\ UNCHANGED <<sheetConfigs, started, results, storeVars, dedupVars, crawlVars,
                   writeVars, pageVars, runVars>>

\* the loop body without the try/catch: an error of processSheet leaves main
MainProcessWithoutCatch ==
    /\ mainPc = "loop"
    /\ mainIdx <= Len(sheetConfigs)
    /\ started' = Append(started, mainIdx)
    /\ \E out \in ProcessOutcomes :
          IF out = "returned"
          THEN /\ results' = Append(results, [name |-> sheetConfigs[mainIdx],
                                              success |-> TRUE, error |-> ""])
               /\ mainIdx' = mainIdx + 1
               /\ UNCHANGED <<mainPc, exitStatus>>
          ELSE /\ results' = Append(results, [name |-> sheetConfigs[mainIdx],
                                              success |-> FALSE, error |-> out])
               /\ mainPc' = "exit"
               /\ exitStatus' = ExitFailure
               /\ UNCHANGED mainIdx
    /\ UNCHANGED <<sheetConfigs, storeVars, dedupVars, crawlVars, writeVars, pageVars, runVars>>

\* One iteration of the loop over sheetConfigs: processSheet in a try/catch.
MainProcess ==
    /\ mainPc = "loop"
    /\ mainIdx <= Len(sheetConfigs)
    /\ started' = Append(started, mainIdx)
    /\ \E out \in ProcessOutcomes :
          results' = Append(results,
                            IF out = "returned"
                            THEN [name |-> sheetConfigs[mainIdx], success |-> TRUE,
                                  error |-> ""]
                            ELSE [name |-> sheetConfigs[mainIdx], success |-> FALSE,
                                  error |-> out])
    /\ mainIdx' = mainIdx + 1
    /\ UNCHANGED <<sheetConfigs, mainPc, exitStatus, storeVars, dedupVars, crawlVars,
                   writeVars, pageVars, runVars>>

\* the end of main throwing when some sheet failed, not when all did
MainSummaryFailingOnAny ==
    /\ mainPc = "loop"
    /\ mainIdx > Len(sheetConfigs)
    /\ LET anyFailed == \E i \in DOMAIN results : ~results[i].success
       IN  exitStatus' = IF anyFailed THEN ExitFailure ELSE ExitSuccess
    /\ mainPc' = "exit"
    /\ UNCHANGED <<sheetConfigs, mainIdx, started, results, storeVars, dedupVars,
                   crawlVars, writeVars, pageVars, runVars>>

\* After the loop: the summary, "Throw if all sheets failed", process.exit.
MainSummary ==
    /\ mainPc = "loop"
    /\ mainIdx > Len(sheetConfigs)
    /\ LET allFailed == \A i \in DOMAIN results : ~results[i].success
       IN  exitStatus' = IF allFailed THEN ExitFailure ELSE ExitSuccess
    /\ mainPc' = "exit"
    /\ UNCHANGED <<sheetConfigs, mainIdx, started, results, storeVars, dedupVars,
                   crawlVars, writeVars, pageVars, runVars>>

(***************************************************************************)
(* writeListingsToSheet as a sequence of backend calls under withRetry.    *)
(***************************************************************************)
SHEET_RETRY_COUNT == 3
SHEET_RETRY_DELAY_MS == 2000

\* { maxRetries: 1 } of the insertDimension call
INSERT_MAX_RETRIES == 1

\* labels of the withRetry calls of writeListingsToSheet, in call order
WriteCalls ==
    << "insertDimension", "loadCells (newRows)", "saveUpdatedCells (newRows)",
       "loadCells (batchUpdate)", "saveUpdatedCells (batchUpdate)" >>

\* the calls of the block "if (newRows.length > 0)"
NewRowCalls == {1, 2, 3}

\* the insert retried like every other call
maxRetriesDefault(label) == SHEET_RETRY_COUNT

\* options.maxRetries ?? CONFIG.SHEET_RETRY_COUNT
maxRetriesOf(label) ==
    IF label = "insertDimension" THEN INSERT_MAX_RETRIES ELSE SHEET_RETRY_COUNT

\* the call is made in this run
CallMade(k) == IF k \in NewRowCalls THEN wNew ELSE wBatch

\* the calls of the block "if (allUpdateIndices.length > 0)" made before
\* those of the block "if (newRows.length > 0)"
NextCallBatchFirst(k) ==
    LET pos(j) == IF j = 0 THEN 0 ELSE IF j \in NewRowCalls THEN j + 2 ELSE j - 3
        later == {j \in DOMAIN WriteCalls : pos(j) > pos(k) /\ CallMade(j)}
    IN  IF later = {} THEN 0
        ELSE CHOOSE j \in later : \A i \in later : pos(j) <= pos(i)

\* index of the first call made after call k; 0 when there is none
NextCall(k) ==
    IF \E j \in DOMAIN WriteCalls : j > k /\ CallMade(j)
    THEN Min({j \in DOMAIN WriteCalls : j > k /\ CallMade(j)})
    ELSE 0

\* errors an attempt can end with: the timer of the race, or a rejection of
\* the Sheets API
AttemptErrors == {"Timeout after 30000ms", "API error 500", "API error 429"}

\* new Error(`Timeout after ${timeoutMs}ms`): the timer of the race won, and
\* fn(), which a race does not cancel, is still running
TimeoutError == "Timeout after 30000ms"

NoOperation == <<0, 0>>

InitWrite ==
    /\ wNew \in BOOLEAN
    /\ wBatch \in BOOLEAN
    /\ wPc = "idle"
    /\ wCall = 0
    /\ wAttempt = 0
    /\ wInvoked = [k \in DOMAIN WriteCalls |-> 0]
    /\ wErrors = [k \in DOMAIN WriteCalls |-> <<>>]
    /\ wSlept = [k \in DOMAIN WriteCalls |-> <<>>]
    /\ wThrown = ""
    /\ wInFlight = NoOperation
    /\ wLate = NoOperation

\* writeListingsToSheet up to its first backend call
StartWrite ==
    /\ wPc = "idle"
    /\ IF NextCall(0) = 0
       THEN /\ wPc' = "returned"
            /\ UNCHANGED <<wCall, wAttempt>>
       ELSE /\ wPc' = "call"
            /\ wCall' = NextCall(0)
            /\ wAttempt' = 1
    /\ UNCHANGED <<wNew, wBatch, wInvoked, wErrors, wSlept, wThrown, wInFlight, wLate,
                   storeVars, dedupVars, crawlVars, mainVars, pageVars, runVars>>

\* One pass of the withRetry loop: fn() raced against the timer. A resolved
\* attempt returns and the next call starts; a failed last attempt throws,
\* and the catch blocks of writeListingsToSheet rethrow.
CallAttempt ==
    /\ wPc = "call"
    /\ wInvoked' = [wInvoked EXCEPT ![wCall] = @ + 1]
    /\ \/ /\ IF NextCall(wCall) = 0
             THEN /\ wPc' = "returned"
                  /\ UNCHANGED <<wCall, wAttempt>>
             ELSE /\ wCall' = NextCall(wCall)
                  /\ wAttempt' = 1
                  /\ UNCHANGED wPc
          /\ UNCHANGED <<wErrors, wThrown, wInFlight>>
       \/ \E e \in AttemptErrors :
             /\ wErrors' = [wErrors EXCEPT ![wCall] = Append(@, e)]
             /\ wInFlight' = IF e = TimeoutError THEN <<wCall, wAttempt>>
                             ELSE wInFlight
             /\ IF wAttempt = maxRetriesOf(WriteCalls[wCall])
                THEN /\ wPc' = "thrown"
                     /\ wThrown' = e
                ELSE /\ wPc' = "backoff"
                     /\ UNCHANGED wThrown
             /\ UNCHANGED <<wCall, wAttempt>>
    /\ UNCHANGED <<wNew, wBatch, wSlept, wLate,
                   storeVars, dedupVars, crawlVars, mainVars, pageVars, runVars>>

\* The request of an attempt that was declared timed out settles at last: it
\* was carried out by the Sheets API (effect) or it failed; nobody awaits it.
LateSettle ==
    /\ wInFlight # NoOperation
    /\ wInFlight' = NoOperation
    /\ \E effect \in BOOLEAN : wLate' = IF effect THEN wInFlight ELSE wLate
    /\ UNCHANGED <<wNew, wBatch, wPc, wCall, wAttempt, wInvoked, wErrors, wSlept,
                   wThrown, storeVars, dedupVars, crawlVars, mainVars, pageVars, runVars>>

\* the wait before a retry with a delay that does not grow
BackoffConstantDelay ==
    /\ wPc = "backoff"
    /\ wSlept' = [wSlept EXCEPT ![wCall] = Append(@, SHEET_RETRY_DELAY_MS)]
    /\ wAttempt' = wAttempt + 1
    /\ wPc' = "call"
    /\ UNCHANGED <<wNew, wBatch, wCall, wInvoked, wErrors, wThrown, wInFlight, wLate,
                   storeVars, dedupVars, crawlVars, mainVars, pageVars, runVars>>

\* The wait of withRetry before the next attempt: retryDelayMs * attempt.
Backoff ==
    /\ wPc = "backoff"
    /\ wSlept' = [wSlept EXCEPT ![wCall] = Append(@, SHEET_RETRY_DELAY_MS * wAttempt)]
    /\ wAttempt' = wAttempt + 1
    /\ wPc' = "call"
    /\ UNCHANGED <<wNew, wBatch, wCall, wInvoked, wErrors, wThrown, wInFlight, wLate,
                   storeVars, dedupVars, crawlVars, mainVars, pageVars, runVars>>

(***************************************************************************)
(* processSheet step by step: the calls that read the Data sheet, crawl a  *)
(* query or write rows, appended to rLog in the order they complete.       *)
(***************************************************************************)
\* an entry of rLog: "snapshot" (getExistingProperties), "fetch" (a page
\* fetch of crawlUrl for urls[url]), "crawl" (crawlUrl of urls[url]
\* returned), "dedup", "insert" (insertDimension), "saveNew" and "saveBatch"
\* (saveUpdatedCells)
RunEvent(e, i) == [ev |-> e, url |-> i]

\* log entries that change rows of the Data sheet
RowWrites == {"insert", "saveNew", "saveBatch"}

\* a crawl loop that saves the rows of each query as soon as it is crawled
crawlLoggedWithWrite(i, n) ==
    [j \in 1..n |-> RunEvent("fetch", i)]
    \o <<RunEvent("crawl", i), RunEvent("saveBatch", i)>>

\* const listings = await crawlUrl(context, urls[i]); allListings.push(...):
\* crawlUrl fetched n pages and returned
crawlLogged(i, n) == [j \in 1..n |-> RunEvent("fetch", i)] \o <<RunEvent("crawl", i)>>

\* numbers of pages crawlUrl fetches for one query
FetchCounts == {1, MAX_PAGES_PER_URL}

\* messages of the errors that leave processSheet
MissingCredentials == "Missing credentials"
NoActiveUrls == "No active URLs configured in Config sheet"
BackendFailure == "API error 500"
LaunchFailure == "browserType.launch failed"
CrawlFailure == "browserContext.newPage failed"

\* await withRetry(() => <call>, label): the call in the retry policy
Guarded(label) == [call |-> label, guarded |-> TRUE, maxAttempts |-> maxRetriesOf(label)]

\* await doc.addSheet({...}): the call made directly, once
Direct(label) == [call |-> label, guarded |-> FALSE, maxAttempts |-> 1]

\* how a sequence of awaited backend calls can end: all of them made, or the
\* k-th failing for good and the later ones not made
BackendOutcomes(calls) ==
    {[ok |-> TRUE, made |-> calls]}
    \cup {[ok |-> FALSE, made |-> SubSeq(calls, 1, k)] : k \in DOMAIN calls}

InitRun ==
    /\ rPc = "connect"
    /\ rUrls = <<>>
    /\ rIdx = 0
    /\ rWrite = [new |-> FALSE, batch |-> FALSE]
    /\ rLog = <<>>
    /\ rThrown = FALSE
    /\ rError = ""
    /\ rBackend = <<>>
    /\ credentials \in BOOLEAN

\* connectToGoogleSheets: throws when a credential is missing, else loadInfo
\* under withRetry
RunConnect ==
    /\ rPc = "connect"
    /\ IF ~credentials
       THEN /\ rPc' = "thrown"
            /\ rError' = MissingCredentials
            /\ UNCHANGED rBackend
       ELSE \E o \in BackendOutcomes(<<Guarded("loadInfo")>>) :
               /\ rBackend' = rBackend \o o.made
               /\ IF o.ok
                  THEN rPc' = "config" /\ UNCHANGED rError
                  ELSE rPc' = "thrown" /\ rError' = BackendFailure
    /\ UNCHANGED <<rUrls, rIdx, rWrite, rLog, rThrown, credentials,
                   storeVars, dedupVars, crawlVars, mainVars, writeVars, pageVars>>

\* ensureConfigSheet: a missing Config sheet is created and formatted (it
\* then has no row); the rows are read; the active urls are returned, or the
\* error is thrown when there is none
RunConfig ==
    /\ rPc = "config"
    /\ \E missing \in BOOLEAN, urls \in UrlChoices :
          /\ missing => urls = <<>>
          /\ \E o \in BackendOutcomes(
                        (IF missing
                         THEN <<Direct("addSheet (Config)"),
                                Guarded("loadCells (formatConfig)"),
                                Guarded("saveUpdatedCells (formatConfig)")>>
                         ELSE <<>>) \o <<Guarded("getRows (config)")>>) :
                /\ rBackend' = rBackend \o o.made
                /\ IF ~o.ok
                   THEN rPc' = "thrown" /\ rError' = BackendFailure /\ UNCHANGED rUrls
                   ELSE IF urls = <<>>
                   THEN rPc' = "thrown" /\ rError' = NoActiveUrls /\ UNCHANGED rUrls
                   ELSE rPc' = "dataSheet" /\ rUrls' = urls /\ UNCHANGED rError
    /\ UNCHANGED <<rIdx, rWrite, rLog, rThrown, credentials,
                   storeVars, dedupVars, crawlVars, mainVars, writeVars, pageVars>>

\* ensureDataSheet: the Data sheet, created with its header when missing
RunDataSheet ==
    /\ rPc = "dataSheet"
    /\ \E missing \in BOOLEAN :
          \E o \in BackendOutcomes(IF missing THEN <<Direct("addSheet (Data)")>>
                                   ELSE <<>>) :
             /\ rBackend' = rBackend \o o.made
             /\ IF o.ok
                THEN rPc' = "snapshot" /\ UNCHANGED rError
                ELSE rPc' = "thrown" /\ rError' = BackendFailure
    /\ UNCHANGED <<rUrls, rIdx, rWrite, rLog, rThrown, credentials,
                   storeVars, dedupVars, crawlVars, mainVars, writeVars, pageVars>>

\* getExistingProperties: the rows are read into the map, or getRows failed
\* on every attempt
RunSnapshot ==
    /\ rPc = "snapshot"
    /\ rBackend' = Append(rBackend, Guarded("getRows (data)"))
    /\ \/ rPc' = "launch" /\ rLog' = Append(rLog, RunEvent("snapshot", 0))
          /\ UNCHANGED rError
       \/ rPc' = "thrown" /\ rError' = BackendFailure /\ UNCHANGED rLog
    /\ UNCHANGED <<rUrls, rIdx, rWrite, rThrown, credentials,
                   storeVars, dedupVars, crawlVars, mainVars, writeVars, pageVars>>

\* chromium.launch and createStealthContext, before the try block
RunLaunch ==
    /\ rPc = "launch"
    /\ \/ rPc' = "crawl" /\ UNCHANGED rError
       \/ rPc' = "thrown" /\ rError' = LaunchFailure
    /\ rIdx' = 0
    /\ UNCHANGED <<rUrls, rWrite, rLog, rThrown, rBackend, credentials,
                   storeVars, dedupVars, crawlVars, mainVars, writeVars, pageVars>>

\* One pass of the crawl loop: crawlUrl(context, urls[i]) returns, or throws
\* and the finally block is entered.
RunCrawl ==
    /\ rPc = "crawl"
    /\ rIdx < Len(rUrls)
    /\ \/ /\ \E n \in FetchCounts : rLog' = rLog \o crawlLogged(rIdx + 1, n)
          /\ rIdx' = rIdx + 1
          /\ UNCHANGED <<rPc, rThrown, rError>>
       \/ /\ rPc' = "close"
          /\ rThrown' = TRUE
          /\ rError' = CrawlFailure
          /\ UNCHANGED <<rLog, rIdx>>
    /\ UNCHANGED <<rUrls, rWrite, rBackend, credentials,
                   storeVars, dedupVars, crawlVars, mainVars, writeVars, pageVars>>

\* After the crawl loop: the de-duplication; writeListingsToSheet classifies
\* the listings (newRows, rowsToUpdate, rowsToInactivate).
RunDedup ==
    /\ rPc = "crawl"
    /\ rIdx = Len(rUrls)
    /\ rLog' = Append(rLog, RunEvent("dedup", 0))
    /\ \E n \in BOOLEAN, b \in BOOLEAN : rWrite' = [new |-> n, batch |-> b]
    /\ rPc' = "insert"
    /\ UNCHANGED <<rUrls, rIdx, rThrown, rError, rBackend, credentials,
                   storeVars, dedupVars, crawlVars, mainVars, writeVars, pageVars>>

\* writeListingsToSheet: insertDimension when there are new rows
RunInsert ==
    /\ rPc = "insert"
    /\ IF rWrite.new
       THEN /\ rBackend' = Append(rBackend, Guarded("insertDimension"))
            /\ \/ /\ rLog' = Append(rLog, RunEvent("insert", 0))
                  /\ rPc' = "saveNew"
                  /\ UNCHANGED <<rThrown, rError>>
               \/ /\ rPc' = "close"
                  /\ rThrown' = TRUE
                  /\ rError' = BackendFailure
                  /\ UNCHANGED rLog
       ELSE /\ rPc' = "batch"
            /\ UNCHANGED <<rLog, rThrown, rError, rBackend>>
    /\ UNCHANGED <<rUrls, rIdx, rWrite, credentials,
                   storeVars, dedupVars, crawlVars, mainVars, writeVars, pageVars>>

\* writeListingsToSheet: loadCells and saveUpdatedCells of the new rows
RunSaveNew ==
    /\ rPc = "saveNew"
    /\ \E o \in BackendOutcomes(<<Guarded("loadCells (newRows)"),
                                  Guarded("saveUpdatedCells (newRows)")>>) :
          /\ rBackend' = rBackend \o o.made
          /\ IF o.ok
             THEN /\ rLog' = Append(rLog, RunEvent("saveNew", 0))
                  /\ rPc' = "batch"
                  /\ UNCHANGED <<rThrown, rError>>
             ELSE /\ rPc' = "close"
                  /\ rThrown' = TRUE
                  /\ rError' = BackendFailure
                  /\ UNCHANGED rLog
    /\ UNCHANGED <<rUrls, rIdx, rWrite, credentials,
                   storeVars, dedupVars, crawlVars, mainVars, writeVars, pageVars>>

\* writeListingsToSheet: loadCells, the updates and the Inactive marks, and
\* the single saveUpdatedCells, when there is a row to update or to retire
RunBatch ==
    /\ rPc = "batch"
    /\ IF rWrite.batch
       THEN \E o \in BackendOutcomes(<<Guarded("loadCells (batchUpdate)"),
                                       Guarded("saveUpdatedCells (batchUpdate)")>>) :
               /\ rBackend' = rBackend \o o.made
               /\ IF o.ok
                  THEN /\ rLog' = Append(rLog, RunEvent("saveBatch", 0))
                       /\ UNCHANGED <<rThrown, rError>>
                  ELSE /\ rThrown' = TRUE
                       /\ rError' = BackendFailure
                       /\ UNCHANGED rLog
       ELSE UNCHANGED <<rLog, rThrown, rError, rBackend>>
    /\ rPc' = "close"
    /\ UNCHANGED <<rUrls, rIdx, rWrite, credentials,
                   storeVars, dedupVars, crawlVars, mainVars, writeVars, pageVars>>

\* finally: context.close() and browser.close(), each raced against a timer;
\* then processSheet returns or the error propagates.
RunClose ==
    /\ rPc = "close"
    /\ rPc' = IF rThrown THEN "thrown" ELSE "returned"
    /\ UNCHANGED <<rUrls, rIdx, rWrite, rLog, rThrown, rError, rBackend, credentials,
                   storeVars, dedupVars, crawlVars, mainVars, writeVars, pageVars>>

(***************************************************************************)
(* main calling processSheet for each store: the loop of main around the   *)
(* steps of processSheet.                                                  *)
(***************************************************************************)
\* main's loop: await processSheet(config.name, config.id) is called for the
\* store the loop is at.
MainCallsProcessSheet ==
    /\ mainPc = "loop"
    /\ mainIdx <= Len(sheetConfigs)
    /\ rPc = "idle"
    /\ started' = Append(started, mainIdx)
    /\ rPc' = "connect"
    /\ UNCHANGED <<sheetConfigs, mainPc, mainIdx, results, exitStatus,
                   rUrls, rIdx, rWrite, rLog, rThrown, rError, rBackend, credentials,
                   storeVars, dedupVars, crawlVars, writeVars, pageVars>>

\* the processSheet call of the loop without its try/catch: an error of
\* processSheet leaves main
MainProcessSheetEndsWithoutCatch ==
    /\ mainPc = "loop"
    /\ rPc \in {"returned", "thrown"}
    /\ results' = Append(results,
                         IF rPc = "returned"
                         THEN [name |-> sheetConfigs[mainIdx], success |-> TRUE,
                               error |-> ""]
                         ELSE [name |-> sheetConfigs[mainIdx], success |-> FALSE,
                               error |-> rError])
    /\ IF rPc = "returned"
       THEN mainIdx' = mainIdx + 1 /\ UNCHANGED <<mainPc, exitStatus>>
       ELSE mainPc' = "exit" /\ exitStatus' = ExitFailure /\ UNCHANGED mainIdx
    /\ rPc' = "idle"
    /\ rUrls' = <<>>
    /\ rIdx' = 0
    /\ rWrite' = [new |-> FALSE, batch |-> FALSE]
    /\ rLog' = <<>>
    /\ rThrown' = FALSE
    /\ rError' = ""
    /\ rBackend' = <<>>
    /\ UNCHANGED <<sheetConfigs, started, credentials,
                   storeVars, dedupVars, crawlVars, writeVars, pageVars>>

\* main's loop: processSheet returned (results.push success) or threw (the
\* catch pushes the failure with String(error)); the loop goes on.
MainProcessSheetEnds ==
    /\ mainPc = "loop"
    /\ rPc \in {"returned", "thrown"}
    /\ results' = Append(results,
                         IF rPc = "returned"
                         THEN [name |-> sheetConfigs[mainIdx], success |-> TRUE,
                               error |-> ""]
                         ELSE [name |-> sheetConfigs[mainIdx], success |-> FALSE,
                               error |-> rError])
    /\ mainIdx' = mainIdx + 1
    /\ rPc' = "idle"
    /\ rUrls' = <<>>
    /\ rIdx' = 0
    /\ rWrite' = [new |-> FALSE, batch |-> FALSE]
    /\ rLog' = <<>>
    /\ rThrown' = FALSE
    /\ rError' = ""
    /\ rBackend' = <<>>
    /\ UNCHANGED <<sheetConfigs, mainPc, started, exitStatus, credentials,
                   storeVars, dedupVars, crawlVars, writeVars, pageVars>>

(***************************************************************************)
(* Initial states and specifications.                                      *)
(***************************************************************************)
InitStore ==
    /\ sheet = <<>>
    /\ now = 0
    /\ result = NoRun
    /\ lastOp = "none"
    /\ scPhase = "none"
    /\ scBefore = <<>>
    /\ scRun = NoScenario

InitDedupIdle ==
    /\ ddIn = <<>>
    /\ ddOut = <<>>
    /\ ddDone = FALSE

InitCrawlIdle ==
    /\ pc = "idle"
    /\ pageNum = 0
    /\ attempt = 0
    /\ allListings = <<>>
    /\ succeeded = FALSE
    /\ returned = <<>>
    /\ lastOutcome = NoAttempt
    /\ lastFetch = <<0, 0>>
    /\ failedTries = 0
    /\ okPages = <<>>
    /\ slept = 0

InitMainIdle ==
    /\ sheetConfigs = <<>>
    /\ mainPc = "idle"
    /\ mainIdx = 0
    /\ started = <<>>
    /\ results = <<>>
    /\ exitStatus = -1

InitWriteIdle ==
    /\ wNew = FALSE
    /\ wBatch = FALSE
    /\ wPc = "idle"
    /\ wCall = 0
    /\ wAttempt = 0
    /\ wInvoked = <<>>
    /\ wErrors = <<>>
    /\ wSlept = <<>>
    /\ wThrown = ""
    /\ wInFlight = NoOperation
    /\ wLate = NoOperation

InitPageIdle ==
    /\ aPc = "idle"
    /\ aOpened = FALSE
    /\ aElapsed = 0
    /\ aNav = NoResponse
    /\ aData = 0
    /\ aWaits = NoWaits
    /\ aExtract = "none"
    /\ aRace = NoRace
    /\ aClose = "none"
    /\ aCloseMs = 0
    /\ aPending = "none"
    /\ aQuery = 0

InitRunIdle ==
    /\ rPc = "idle"
    /\ rUrls = <<>>
    /\ rIdx = 0
    /\ rWrite = [new |-> FALSE, batch |-> FALSE]
    /\ rLog = <<>>
    /\ rThrown = FALSE
    /\ rError = ""
    /\ rBackend = <<>>
    /\ credentials = TRUE

InitOthersIdle == InitPageIdle /\ InitRunIdle

Init ==
    /\ InitStore /\ InitDedupIdle /\ InitCrawlIdle /\ InitMainIdle /\ InitWriteIdle
    /\ InitOthersIdle

Next == RunNoUrls \/ RunStore \/ UserEdit

Spec == Init /\ [][Next]_vars

InitD ==
    /\ InitStore /\ InitDedup /\ InitCrawlIdle /\ InitMainIdle /\ InitWriteIdle
    /\ InitOthersIdle

NextDedup == Deduplicate

SpecDedup == InitD /\ [][NextDedup]_vars

NextCrawl ==
    \/ StartCrawl
    \/ PageLoopHead
    \/ AttemptLoopHead
    \/ NewPageFails
    \/ PageAttempt
    \/ AfterAttempts
    \/ ApplyItemLimit

SpecCrawl == Init /\ [][NextCrawl]_vars

InitM ==
    /\ InitStore /\ InitDedupIdle /\ InitCrawlIdle /\ InitMain /\ InitWriteIdle
    /\ InitOthersIdle

NextMain == MainStart \/ MainProcess \/ MainSummary

SpecMain == InitM /\ [][NextMain]_vars

InitW ==
    /\ InitStore /\ InitDedupIdle /\ InitCrawlIdle /\ InitMainIdle /\ InitWrite
    /\ InitOthersIdle

NextWrite == StartWrite \/ CallAttempt \/ Backoff

SpecWrite == InitW /\ [][NextWrite]_vars

\* writeListingsToSheet with the requests of its timed-out attempts settling
\* in the background
NextWriteLate == StartWrite \/ CallAttempt \/ Backoff \/ LateSettle

SpecWriteLate == InitW /\ [][NextWriteLate]_vars

InitP ==
    /\ InitStore /\ InitDedupIdle /\ InitCrawlIdle /\ InitMainIdle /\ InitWriteIdle
    /\ InitPage /\ InitRunIdle

NextPage ==
    \/ NewPageOpens
    \/ NewPageRejects
    \/ GotoSettles
    \/ GotoTimesOut
    \/ SelectorSettles
    \/ SelectorTimesOut
    \/ NetworkIdleSettles
    \/ NetworkIdleTimesOut
    \/ EvaluateSettles
    \/ OuterTimerFires
    \/ PageCloseSettles
    \/ CloseGraceTimerFires
    \/ PendingStepSettles
    \/ NextQueryStarts

SpecPage == InitP /\ [][NextPage]_vars

InitR ==
    /\ InitStore /\ InitDedupIdle /\ InitCrawlIdle /\ InitMainIdle /\ InitWriteIdle
    /\ InitPageIdle /\ InitRun

NextRun ==
    \/ RunConnect
    \/ RunConfig
    \/ RunDataSheet
    \/ RunSnapshot
    \/ RunLaunch
    \/ RunCrawl
    \/ RunDedup
    \/ RunInsert
    \/ RunSaveNew
    \/ RunBatch
    \/ RunClose

SpecRun == InitR /\ [][NextRun]_vars

\* The timers of a page attempt are setTimeout callbacks of the event loop and
\* the timeouts Playwright enforces: once set they fire unless the step they
\* guard settles first. Nothing is assumed about the steps settling by
\* themselves.
\* main with processSheet step by step: no store run has started; the
\* credentials are in the environment of the process or are not
InitS ==
    /\ InitStore /\ InitDedupIdle /\ InitCrawlIdle /\ InitMain /\ InitWriteIdle
    /\ InitPageIdle
    /\ rPc = "idle"
    /\ rUrls = <<>>
    /\ rIdx = 0
    /\ rWrite = [new |-> FALSE, batch |-> FALSE]
    /\ rLog = <<>>
    /\ rThrown = FALSE
    /\ rError = ""
    /\ rBackend = <<>>
    /\ credentials \in BOOLEAN

NextStores ==
    \/ MainStart
    \/ MainCallsProcessSheet
    \/ RunConnect
    \/ RunConfig
    \/ RunDataSheet
    \/ RunSnapshot
    \/ RunLaunch
    \/ RunCrawl
    \/ RunDedup
    \/ RunInsert
    \/ RunSaveNew
    \/ RunBatch
    \/ RunClose
    \/ MainProcessSheetEnds
    \/ MainSummary

SpecStores == InitS /\ [][NextStores]_vars

NextPartial ==
    \/ SeedRun
    \/ SeedEdit
    \/ RunStoreFails
    \/ RunStoreAgain
    \/ RunStoreCutShort

SpecPartial == Init /\ [][NextPartial]_vars

TimersFire ==
    /\ WF_vars(GotoTimesOut)
    /\ WF_vars(SelectorTimesOut)
    /\ WF_vars(NetworkIdleTimesOut)
    /\ WF_vars(OuterTimerFires)
    /\ WF_vars(CloseGraceTimerFires)

SpecPageLive == InitP /\ [][NextPage]_vars /\ TimersFire

(***************************************************************************)
(* Properties of the store under processSheet runs (Spec).                 *)
(***************************************************************************)
\* the step is a processSheet run
IsRun == now' # now

\* number of rows of s that hold id
RowsOf(s, id) == Cardinality({i \in DOMAIN s : s[i].id = id})

\* C1: Idempotence of reconciliation. After a run that reconciled and wrote a
\* batch successfully, a second run with the same active queries, the same
\* crawl results and the same site contents produces zero inserts, zero
\* updates and zero retirements, and changes no cell of the sheet.
C1_SecondRunIsNoOp ==
    (lastOp = "run" /\ result.ok /\ result.repeat) =>
        /\ result.added = 0
        /\ result.updated = 0
        /\ result.inactive = 0
        /\ result.unchanged = Cardinality(result.seen)
        /\ ~result.wrote

\* C2: Owned-field preservation. In every run, successful or failing, each
\* row that already existed keeps its three user columns and its First Seen
\* value, whether it is updated, retired, reactivated or left alone; the only
\* user columns the run writes are the empty ones of the rows it inserts.
C2_OwnedFieldsPreserved ==
    [][IsRun =>
         /\ \A i \in DOMAIN sheet : sheet[i].id # "" =>
               /\ \E j \in DOMAIN sheet' : sheet'[j].id = sheet[i].id
               /\ \A j \in DOMAIN sheet' : sheet'[j].id = sheet[i].id =>
                     /\ sheet'[j].mark = sheet[i].mark
                     /\ sheet'[j].rating = sheet[i].rating
                     /\ sheet'[j].remarks = sheet[i].remarks
                     /\ sheet'[j].firstSeen = sheet[i].firstSeen
         /\ \A j \in DOMAIN sheet' : sheet'[j].id \notin StoredIds(sheet) =>
               /\ sheet'[j].mark = ""
               /\ sheet'[j].rating = ""
               /\ sheet'[j].remarks = ""]_vars

\* C2 witness: a row the curator annotated was rewritten by the latest run
\* (updated or retired at the run's timestamp) and was first seen earlier.
C2_AnnotatedRowRewritten ==
    /\ lastOp = "run"
    /\ result.ok
    /\ \E i \in DOMAIN sheet :
          /\ sheet[i].mark = "x"
          /\ sheet[i].id \in result.updatedIds \cup result.retiredIds
          /\ sheet[i].lastUpdated = now
          /\ sheet[i].firstSeen < now

\* C3: Retirement is scoped to the sourcing query. In a successful run, a row
\* that is Active and whose id is absent from the batch is retired exactly
\* when the query it was sourced from is among the queries crawled in the run.
C3_RetirementScopedToQuery ==
    [][(IsRun /\ result'.ok) =>
         \A i \in DOMAIN sheet :
            (sheet[i].status = "Active" /\ sheet[i].id \notin result'.seen) =>
               (sheet[i].id \in result'.retiredIds
                   <=> sheet[i].sourceUrl \in Range(result'.urls))]_vars

\* the stored row holds exactly what a write of listing l leaves in the
\* crawler-written columns other than Views
StoredEqualsExceptViews(row, l) ==
    /\ row.title = titleWithLink(l)
    /\ row.price = NumCell(l.priceNumber, PRICE_PATTERN)
    /\ row.propertyType = l.propertyType
    /\ row.size = l.size
    /\ row.floor = l.floor
    /\ row.location = l.location
    /\ row.metroDistance = l.metroDistance
    /\ row.tags = JoinTags(l.tags)
    /\ row.agentType = l.agentType
    /\ row.agentName = l.agentName
    /\ row.updateInfo = l.updateInfo
    /\ row.sourceUrl = l.sourceUrl

\* C5: Change-detection exclusion. In a successful run, a batch record whose
\* row is Active and differs from the record only in the browse count is
\* classified unchanged, and the row is left exactly as it was.
C5_ViewsOnlyIsUnchanged ==
    [][(IsRun /\ result'.ok) =>
         \A i \in DOMAIN sheet : \A k \in DOMAIN BatchOf(result') :
            LET l == BatchOf(result')[k]
            IN  ( /\ sheet[i].id = l.id
                  /\ sheet[i].status = "Active"
                  /\ StoredEqualsExceptViews(sheet[i], l)
                  /\ sheet[i].views # NumCell(l.views, "") ) =>
                     /\ l.id \in result'.unchangedIds
                     /\ \E j \in DOMAIN sheet' : sheet'[j] = sheet[i]]_vars

\* C6: Row uniqueness and permanence. Every step, a run that succeeds or
\* fails partway through the write included, leaves each id on exactly one
\* row, deletes no row and drops no id from the sheet.
C6_RowsUniqueAndPermanent ==
    [][/\ \A id \in StoredIds(sheet') : RowsOf(sheet', id) = 1
       /\ StoredIds(sheet) \subseteq StoredIds(sheet')
       /\ Len(sheet') >= Len(sheet)]_vars

\* C6 witness: after a run that failed between inserting the blank rows and
\* saving them, a later run succeeded and both ids are in the sheet.
C6_StoreFilledAfterPartialWrite ==
    /\ \E i \in DOMAIN sheet : sheet[i].id = ""
    /\ lastOp = "run"
    /\ result.ok
    /\ StoredIds(sheet) = Ids

\* C7: Insert classification. In a successful run the records classified as
\* inserts are exactly the batch records whose id is not in the sheet, and
\* each of them gets one new row with First Seen = Last Updated = the run's
\* timestamp, Status Active and empty user columns.
C7_InsertsAreTheUnknownIds ==
    [][(IsRun /\ result'.ok) =>
         /\ result'.seen = {BatchOf(result')[k].id : k \in DOMAIN BatchOf(result')}
         /\ result'.addedIds = result'.seen \ StoredIds(sheet)
         /\ result'.added = Cardinality(result'.seen \ StoredIds(sheet))
         /\ \A id \in result'.seen \ StoredIds(sheet) :
               /\ RowsOf(sheet', id) = 1
               /\ \A j \in DOMAIN sheet' : sheet'[j].id = id =>
                     /\ sheet'[j].firstSeen = now'
                     /\ sheet'[j].lastUpdated = now'
                     /\ sheet'[j].status = "Active"
                     /\ sheet'[j].mark = ""
                     /\ sheet'[j].rating = ""
                     /\ sheet'[j].remarks = ""]_vars

\* C7 witness: a successful run inserted one record and updated another.
C7_RunInsertsAndUpdates ==
    /\ lastOp = "run"
    /\ result.ok
    /\ result.added > 0
    /\ result.updated > 0

\* C8: Update classification. In a successful run a batch record whose id is
\* in the sheet is classified as an update if and only if the stored Status
\* is not Active or a stored field other than Views, the user columns, First
\* Seen and the id differs from the record; an updated row holds the record's
\* fields and Views, Last Updated = the run's timestamp and Status Active.
C8_UpdateIffDifferent ==
    [][(IsRun /\ result'.ok) =>
         \A i \in DOMAIN sheet : \A k \in DOMAIN BatchOf(result') :
            LET l == BatchOf(result')[k]
            IN  sheet[i].id = l.id =>
                  /\ l.id \in result'.updatedIds
                        <=> ( \/ sheet[i].status # "Active"
                              \/ ~StoredEqualsExceptViews(sheet[i], l) )
                  /\ l.id \in result'.updatedIds =>
                        \E j \in DOMAIN sheet' :
                           /\ sheet'[j].id = l.id
                           /\ StoredEqualsExceptViews(sheet'[j], l)
                           /\ sheet'[j].views = NumCell(l.views, "")
                           /\ sheet'[j].lastUpdated = now'
                           /\ sheet'[j].status = "Active"]_vars

(***************************************************************************)
(* Property of the de-duplication (SpecDedup).                             *)
(***************************************************************************)
\* C4: De-duplication. The batch handed to reconciliation holds exactly one
\* record for each id of the crawled sequence and no other record, and that
\* record is the last occurrence of the id in the sequence.
C4_OneRecordPerIdLastWins ==
    ddDone =>
        /\ {ddOut[j].id : j \in DOMAIN ddOut} = {ddIn[i].id : i \in DOMAIN ddIn}
        /\ \A j \in DOMAIN ddOut :
              /\ RowsOf(ddOut, ddOut[j].id) = 1
              /\ ddOut[j] = ddIn[Max({i \in DOMAIN ddIn : ddIn[i].id = ddOut[j].id})]

\* C4 witness: the crawled sequence held one id twice with different field
\* values, and the batch is shorter than the sequence.
C4_DuplicateCollapsed ==
    /\ ddDone
    /\ Len(ddOut) < Len(ddIn)
    /\ \E i, j \in DOMAIN ddIn : i < j /\ ddIn[i].id = ddIn[j].id /\ ddIn[i] # ddIn[j]

(***************************************************************************)
(* Properties of crawlUrl (SpecCrawl).                                     *)
(***************************************************************************)
\* the attempt got no response, HTTP 403, HTTP 429 or a final URL outside
\* the expected origin
FetchBlocked(o) ==
    /\ o.page > 0
    /\ ~o.outer
    /\ o.nav.kind # "throw"
    /\ \/ o.nav.kind = "null"
       \/ o.nav.status \in {403, 429}
       \/ o.nav.finalUrl.origin # EXPECTED_ORIGIN

\* records of the pages whose listings were pushed, in page order
CollectedRecords ==
    Flatten([i \in DOMAIN okPages |-> PageRecords(okPages[i].page, okPages[i].items)])

\* C9: Blocked halts pagination. Once the latest fetch, of page n, got no
\* response, HTTP 403, HTTP 429 or a final URL outside the expected origin,
\* crawlUrl has returned: page n is not fetched again, no later page is
\* fetched, and the value returned is exactly the records of pages 1..n-1.
C9_BlockedHaltsPagination ==
    FetchBlocked(lastOutcome) =>
        /\ pc = "done"
        /\ lastFetch[1] = lastOutcome.page
        /\ \A i \in DOMAIN okPages : okPages[i].page < lastOutcome.page
        /\ returned = CollectedRecords

\* C9 witness: page 2 or later answered HTTP 429 after earlier pages gave
\* records, and crawlUrl returned those records.
C9_BlockedAfterCollectedPages ==
    /\ pc = "done"
    /\ FetchBlocked(lastOutcome)
    /\ lastOutcome.nav.status = 429
    /\ lastOutcome.page > 1
    /\ Len(returned) > 0

\* number of times x occurs in sequence s
Occurrences(s, x) == Cardinality({j \in DOMAIN s : s[j] = x})

\* records pushed for the pages before okPages[i]
RECURSIVE ItemsBefore(_)
ItemsBefore(i) == IF i <= 1 THEN 0 ELSE ItemsBefore(i - 1) + okPages[i - 1].items

\* C10 as stated: when crawlUrl has returned, every page that succeeded on a
\* retry (after 1 .. PAGE_RETRY_COUNT - 1 failed attempts) has each of its
\* records exactly once in the returned value, and the page after it was
\* fetched.
C10_RetriedPageKeptAndFollowed ==
    pc = "done" =>
        \A i \in DOMAIN okPages : okPages[i].attempt > 1 =>
            /\ \A r \in Range(PageRecords(okPages[i].page, okPages[i].items)) :
                  Occurrences(returned, r) = 1
            /\ lastFetch[1] > okPages[i].page

\* C10 amended: a page that succeeded on a retry has each of its records
\* exactly once among the collected listings; the returned value holds each
\* of them once if it lies within the first MAX_ITEMS_PER_URL collected
\* records and not at all otherwise; and the page after it is fetched unless
\* the item limit was reached or it was the last page allowed.
C10_RetriedPageKeptWithinLimits ==
    \A i \in DOMAIN okPages : okPages[i].attempt > 1 =>
        /\ okPages[i].attempt <= PAGE_RETRY_COUNT
        /\ \A r \in Range(PageRecords(okPages[i].page, okPages[i].items)) :
              Occurrences(allListings, r) = 1
        /\ pc = "done" =>
              /\ \A k \in 1..okPages[i].items :
                    Occurrences(returned, <<okPages[i].page, k>>) =
                       IF ItemsBefore(i) + k <= MAX_ITEMS_PER_URL THEN 1 ELSE 0
              /\ ( /\ ItemsBefore(i) + okPages[i].items < MAX_ITEMS_PER_URL
                   /\ okPages[i].page < MAX_PAGES_PER_URL )
                    => lastFetch[1] > okPages[i].page

\* C10 witness: crawlUrl returned after a page succeeded on its third
\* attempt and a later page was fetched.
C10_ThirdAttemptSucceeded ==
    /\ pc = "done"
    /\ \E i \in DOMAIN okPages :
          /\ okPages[i].attempt = PAGE_RETRY_COUNT
          /\ lastFetch[1] > okPages[i].page
          /\ Occurrences(returned, <<okPages[i].page, 1>>) = 1

(***************************************************************************)
(* Properties of main (SpecMain).                                          *)
(***************************************************************************)
\* C12: Per-store failure isolation. When main has ended with at least one
\* store configured, processSheet was called exactly once for each configured
\* store, in order, whatever the earlier stores did, and the results array
\* holds exactly one entry per store, under the store's name.
C12_EveryStoreProcessedOnce ==
    /\ \A i \in DOMAIN sheetConfigs : Occurrences(started, i) <= 1
    /\ Len(results) = Len(started)
    /\ (mainPc = "exit" /\ sheetConfigs # <<>>) =>
          /\ \A i \in DOMAIN sheetConfigs : Occurrences(started, i) = 1
          /\ Len(results) = Len(sheetConfigs)
          /\ \A i \in DOMAIN sheetConfigs : results[i].name = sheetConfigs[i]

\* C12 witness: three stores, the first two failed and the third was still
\* processed and succeeded.
C12_LaterStoreRunsAfterFailures ==
    /\ mainPc = "exit"
    /\ Len(sheetConfigs) = 3
    /\ ~results[1].success
    /\ ~results[2].success
    /\ results[3].success
    /\ started = <<1, 2, 3>>

\* C13: Overall status. When main has ended, the exit status is nonzero if
\* and only if no store is configured or every configured store failed, and
\* it is zero as soon as one store succeeded.
C13_ExitFailsIffAllStoresFailed ==
    mainPc = "exit" =>
        /\ exitStatus \in {0, 1}
        /\ exitStatus # 0 <=>
              \/ sheetConfigs = <<>>
              \/ /\ Len(results) = Len(sheetConfigs)
                 /\ \A i \in DOMAIN results : ~results[i].success

\* C13 witness: one store failed, another succeeded, and the run exited with
\* status zero.
C13_PartialFailureExitsZero ==
    /\ mainPc = "exit"
    /\ exitStatus = 0
    /\ \E i, j \in DOMAIN results : ~results[i].success /\ results[j].success

(***************************************************************************)
(* Further properties of crawlUrl (SpecCrawl).                             *)
(***************************************************************************)
\* the attempt ended in a timeout: the navigation timeout of page.goto or
\* the outer per-page timer
AttemptTimedOut(o) ==
    /\ o.page > 0
    /\ \/ o.outer
       \/ (o.nav.kind = "throw" /\ o.nav.message = GotoTimeoutMessage)

\* C11: Timeouts are never retried. Once the latest attempt ended in a
\* timeout (of the navigation or of the outer per-page timer), crawlUrl has
\* returned: no further attempt for the page, no later page, and the value
\* returned is the records collected from the earlier pages.
C11_TimeoutEndsQuery ==
    AttemptTimedOut(lastOutcome) =>
        /\ pc = "done"
        /\ lastFetch[1] = lastOutcome.page
        /\ returned = CollectedRecords

\* the first MAX_ITEMS_PER_URL records of the successful pages, in page order
CollectedWithinBudget ==
    SubSeq(CollectedRecords, 1, Min({Len(CollectedRecords), MAX_ITEMS_PER_URL}))

\* C16: Item budget. On every return path crawlUrl returns at most
\* MAX_ITEMS_PER_URL records, and they are the first MAX_ITEMS_PER_URL
\* records of the concatenation of the successful pages in page order: a page
\* that crosses the budget is cut, not dropped.
C16_ItemBudget ==
    pc = "done" =>
        /\ Len(returned) <= MAX_ITEMS_PER_URL
        /\ returned = CollectedWithinBudget

\* C16 witness: the budget was crossed in the middle of the last successful
\* page; the result is full and ends with a record of that page, and the
\* page's last record is cut off.
C16_LastPageTruncated ==
    /\ pc = "done"
    /\ Len(okPages) > 1
    /\ Len(CollectedRecords) > MAX_ITEMS_PER_URL
    /\ Len(returned) = MAX_ITEMS_PER_URL
    /\ returned[MAX_ITEMS_PER_URL][1] = okPages[Len(okPages)].page
    /\ Occurrences(returned, CollectedRecords[Len(CollectedRecords)]) = 0

\* the attempt loaded the page normally and found no record on it
EmptyPage(o) ==
    /\ o.page > 0
    /\ ~o.outer
    /\ o.nav.kind = "response"
    /\ o.nav.status = 200
    /\ o.nav.finalUrl.origin = EXPECTED_ORIGIN
    /\ o.items = 0

\* C17: Page budget and natural end. No page beyond MAX_PAGES_PER_URL is ever
\* fetched; and once the latest fetch gave a page with zero records and no
\* error, crawlUrl has returned normally: no retry of the page, no later page,
\* and the value returned is the records collected so far.
C17_PageBudgetAndNaturalEnd ==
    /\ lastFetch[1] <= MAX_PAGES_PER_URL
    /\ pageNum <= MAX_PAGES_PER_URL + 1
    /\ EmptyPage(lastOutcome) =>
          /\ pc = "done"
          /\ lastFetch[1] = lastOutcome.page
          /\ returned = CollectedRecords

\* C17 witness: the last page allowed was fetched and was empty, and crawlUrl
\* returned the records of an earlier page.
C17_EmptyLastPage ==
    /\ pc = "done"
    /\ EmptyPage(lastOutcome)
    /\ lastFetch[1] = MAX_PAGES_PER_URL
    /\ Len(returned) > 0

\* C18: Partial results survive every degrade path. However the crawl of a
\* query ends, the records collected from its earlier pages are handed to
\* the caller (within the item budget), so that they reach reconciliation.
C18_PartialResultsSurvive ==
    (pc \in {"done", "thrown"} /\ okPages # <<>>) =>
        /\ pc = "done"
        /\ returned = CollectedWithinBudget

\* pages the page loop has left without pushing records: given up after
\* PAGE_RETRY_COUNT failed attempts
GivenUpPages ==
    {p \in 1..(pageNum - 1) : \A i \in DOMAIN okPages : okPages[i].page # p}

\* C19: Page-level failure stops the query. After a page was given up on, no
\* later page is fetched and the records of the earlier pages are returned.
C19_GivenUpPageStopsQuery ==
    \A p \in GivenUpPages :
        /\ lastFetch[1] <= p
        /\ \A i \in DOMAIN okPages : okPages[i].page < p
        /\ pc = "done" => returned = CollectedRecords

(***************************************************************************)
(* Further properties of the store (Spec).                                 *)
(***************************************************************************)
\* C14: Index shifting. In a successful run that inserts n >= 0 rows at the
\* top, the row that was at index i is at index i + n afterwards and is the
\* only row written for its id: it holds the update if its id was classified
\* as an update, the retirement if its id was retired, and is untouched
\* otherwise; the n inserted rows hold exactly the inserted records.
C14_WritesLandOnTheirRows ==
    [][(IsRun /\ result'.ok) =>
         \E n \in {result'.added} : \E b \in {Range(BatchOf(result'))} :
             /\ Len(sheet') = Len(sheet) + n
             /\ \A i \in DOMAIN sheet :
                   IF sheet[i].id \in result'.updatedIds
                   THEN \E l \in b :
                           /\ l.id = sheet[i].id
                           /\ \E d \in {UpdateData(l, now')} :
                                 sheet'[i + n] = SetCells(sheet[i], d)
                   ELSE IF sheet[i].id \in result'.retiredIds
                   THEN \E d \in {InactiveData(now')} :
                           sheet'[i + n] = SetCells(sheet[i], d)
                   ELSE sheet'[i + n] = sheet[i]
             /\ \A k \in 1..n :
                   /\ sheet'[k].id \in result'.addedIds
                   /\ \E l \in b : l.id = sheet'[k].id /\ sheet'[k] = NewRow(l, now')]_vars

\* C14 witness: a successful run inserted one row at the top and retired the
\* row below it, at its shifted index.
C14_InsertAndRetireInOneRun ==
    /\ lastOp = "run"
    /\ result.ok
    /\ result.added = 1
    /\ result.inactive = 1
    /\ sheet[1].status = "Active"
    /\ \E i \in DOMAIN sheet :
          i > 1 /\ sheet[i].id \in result.retiredIds /\ sheet[i].status = "Inactive"

(***************************************************************************)
(* Properties of the backend calls of writeListingsToSheet (SpecWrite).    *)
(***************************************************************************)
\* C15: Non-idempotent insert is single-shot. insertDimension is invoked at
\* most once in a run; when its attempt fails or times out,
\* writeListingsToSheet throws that error, and no other backend call of the
\* run is invoked: no cell of a new row, an update or a retirement is written.
C15_InsertIsSingleShot ==
    wPc # "idle" =>
        /\ wInvoked[1] <= 1
        /\ wErrors[1] # <<>> =>
              /\ wPc = "thrown"
              /\ wThrown = wErrors[1][1]
              /\ \A k \in DOMAIN WriteCalls : k > 1 => wInvoked[k] = 0

\* C15 witness: a run with rows to insert and rows to update whose insert
\* timed out.
C15_InsertTimedOut ==
    /\ wPc = "thrown"
    /\ wNew
    /\ wBatch
    /\ wInvoked[1] = 1
    /\ wThrown = "Timeout after 30000ms"

\* C20: Retry combinator. For every call under withRetry: the operation is
\* invoked at most maxRetries times; a call that returned was invoked once
\* more than it failed, the resolved attempt being its last; the call that
\* threw failed maxRetries times and threw the error of its last attempt; and
\* the wait after the k-th failed attempt, made only before a next attempt,
\* is retryDelayMs * k.
C20_WithRetry ==
    wPc # "idle" =>
        \A k \in DOMAIN WriteCalls :
            LET max == maxRetriesOf(WriteCalls[k])
                finished == CallMade(k) /\ (wPc = "returned" \/ k < wCall)
            IN  /\ wInvoked[k] <= max
                /\ ~CallMade(k) => wInvoked[k] = 0
                /\ finished =>
                      /\ wInvoked[k] = Len(wErrors[k]) + 1
                      /\ Len(wSlept[k]) = Len(wErrors[k])
                /\ (k = wCall /\ wPc = "thrown") =>
                      /\ wInvoked[k] = max
                      /\ Len(wErrors[k]) = max
                      /\ wThrown = wErrors[k][max]
                      /\ Len(wSlept[k]) = max - 1
                /\ (k = wCall /\ wPc = "call") =>
                      /\ wInvoked[k] = Len(wErrors[k])
                      /\ Len(wSlept[k]) = Len(wErrors[k])
                      /\ wAttempt = Len(wErrors[k]) + 1
                /\ \A j \in DOMAIN wSlept[k] : wSlept[k][j] = SHEET_RETRY_DELAY_MS * j

\* C20 witness: one call returned on its third attempt after two different
\* errors, and a later call threw its third error after waiting twice.
C20_ThirdAttemptReturnsAndThrows ==
    /\ wPc = "thrown"
    /\ \E k \in DOMAIN WriteCalls :
          /\ k < wCall
          /\ wInvoked[k] = SHEET_RETRY_COUNT
          /\ Len(wErrors[k]) = 2
          /\ wErrors[k][1] # wErrors[k][2]
    /\ wSlept[wCall] = <<SHEET_RETRY_DELAY_MS, 2 * SHEET_RETRY_DELAY_MS>>
    /\ wErrors[wCall][2] # wThrown

(***************************************************************************)
(* Properties of the delays and of the order of the page attempts          *)
(* (SpecCrawl).                                                            *)
(***************************************************************************)
\* C21: a page attempt that ends in a non-timeout error is retried up to a
\* bounded attempt count, and the delay before the k-th retry of a page (the
\* one before attempt k + 1) is a linear backoff, REQUEST_DELAY_MS * k, plus
\* a random part below JITTER_MS.
C21_RetryBackoffIsLinear ==
    /\ attempt <= PAGE_RETRY_COUNT + 1
    /\ (pc = "fetch" /\ attempt > 1) =>
          /\ slept >= REQUEST_DELAY_MS * (attempt - 1)
          /\ slept < REQUEST_DELAY_MS * (attempt - 1) + JITTER_MS

\* the page of the latest navigation had its records pushed
LastPageSucceeded ==
    \E i \in DOMAIN okPages : okPages[i].page = lastFetch[1]

\* C22: within one query the pages are attempted in strictly increasing page
\* number starting at 1; the first attempt of page n + 1 starts only after
\* page n has ended in success or has exhausted its retries; no page is
\* attempted more than PAGE_RETRY_COUNT times.
C22_PagesInOrder ==
    [][lastFetch' # lastFetch =>
          /\ lastFetch'[2] <= PAGE_RETRY_COUNT
          /\ \/ \* the first navigation of the query
                /\ lastFetch = <<0, 0>>
                /\ lastFetch' = <<1, 1>>
             \/ \* the next attempt of the same page, after an error
                /\ lastFetch[1] >= 1
                /\ lastFetch' = <<lastFetch[1], lastFetch[2] + 1>>
                /\ ~LastPageSucceeded
             \/ \* the first attempt of the next page
                /\ lastFetch[1] >= 1
                /\ lastFetch' = <<lastFetch[1] + 1, 1>>
                /\ LastPageSucceeded \/ lastFetch[2] = PAGE_RETRY_COUNT]_vars

\* Witness of C22: page 3 is at its second attempt after page 1 succeeded
\* and page 2 used all its attempts.
C22_ThirdPageAfterGivenUpSecond ==
    /\ lastFetch = <<3, 2>>
    /\ Len(okPages) = 1
    /\ okPages[1].page = 1

\* C23: when a page succeeded and the next page of the query is fetched, the
\* controller has slept, since that success and before the navigation of the
\* next page starts, for d ms with
\* REQUEST_DELAY_MS <= d < REQUEST_DELAY_MS + 4000.
C23_DelayBetweenPages ==
    (/\ pc = "fetch"
     /\ pageNum > 1
     /\ attempt = 1
     /\ \E i \in DOMAIN okPages : okPages[i].page = pageNum - 1)
    => /\ slept >= REQUEST_DELAY_MS
       /\ slept < REQUEST_DELAY_MS + JITTER_MS

\* Witness of C23: page 2 is about to be navigated to after page 1 succeeded
\* and the longest delay was slept.
C23_SecondPageAfterLongestDelay ==
    /\ pc = "fetch"
    /\ pageNum = 2
    /\ attempt = 1
    /\ Len(okPages) = 1
    /\ okPages[1].page = 1
    /\ slept = REQUEST_DELAY_MS + JITTER_MS - 1

(***************************************************************************)
(* Properties of one page attempt (SpecPage, SpecPageLive).                *)
(***************************************************************************)
\* a content wait of the attempt ended by its timeout
WaitTimedOut == aWaits.selector = "timeout" \/ aWaits.idle = "timeout"

\* C24: a timeout of the networkidle wait or of the selector wait never
\* produces an error or timeout outcome for the page: extraction runs after
\* the waits, and when it returns with embedded data present the records of
\* the page are returned as a success. An attempt in which a wait timed out
\* ends in error or timeout only when the extraction itself threw or never
\* returned.
C24_WaitTimeoutsDegrade ==
    WaitTimedOut =>
       /\ aPc # "networkidle" => aExtract # "none"
       /\ aRace.settled =>
             /\ aRace.message \notin {SelectorTimeoutMessage, IdleTimeoutMessage}
             /\ (aExtract = "returned" /\ aData > 0) =>
                   (attemptOutcome(aRace) = "success" /\ aRace.items = aData)
             /\ attemptOutcome(aRace) \in {"error", "timeout"} =>
                   aExtract \in {"started", "threw"}

\* Witness of C24: both waits timed out after the slowest navigation and the
\* records of the page were still returned.
C24_SuccessAfterBothWaitsTimedOut ==
    /\ aWaits = [selector |-> "timeout", idle |-> "timeout"]
    /\ aElapsed > PAGE_GOTO_TIMEOUT_MS + PAGE_SELECTOR_TIMEOUT_MS
    /\ aRace.settled
    /\ attemptOutcome(aRace) = "success"
    /\ aRace.items = 12

\* C25: extraction is attempted immediately after the page load and the
\* networkidle wait is performed only if that first extraction yields
\* nothing; when the embedded data is present the records of the page are
\* returned without any networkidle wait.
C25_ExtractionBeforeIdleWait ==
    /\ aPc = "networkidle" => aExtract # "none"
    /\ (aRace.settled /\ attemptOutcome(aRace) = "success") => aWaits.idle = "none"

\* C26: every page opened for an attempt has page.close() called as soon as
\* the race has settled, whatever it settled to, and the attempt ends (the
\* next attempt or the return of crawlUrl can follow) within
\* PAGE_CLOSE_GRACE_MS of that, whether page.close() resolved, rejected or
\* never settled.
C26_PageClosedOnEveryPath ==
    /\ aRace.settled => (aOpened /\ aClose # "none")
    /\ aPc \in {"goto", "selector", "networkidle", "evaluate", "closing"} =>
          aOpened
    /\ (aOpened /\ aPc \in {"ended", "thrown"}) =>
          /\ aRace.settled
          /\ aClose \in {"closed", "rejected", "abandoned"}
          /\ aCloseMs <= PAGE_CLOSE_GRACE_MS

\* Witness of C26: the outer timer ended the attempt and page.close() never
\* settled.
C26_ClosedAfterOuterTimeout ==
    /\ aPc = "ended"
    /\ aRace.outer
    /\ aClose = "abandoned"
    /\ aCloseMs = PAGE_CLOSE_GRACE_MS

resolvedAttempts(k) == wInvoked[k] - Len(wErrors[k])

\* C29: in one store run the new rows are applied as one insertion at the
\* top followed by one save of their cells, and the update and retirement
\* writes are applied together in one later batch save; no update or
\* retirement write is applied before the insertion has completed. In terms
\* of the backend calls: no call resolves more than once; the cells of the
\* new rows are saved only after insertDimension resolved; when there are new
\* rows, loadCells and saveUpdatedCells of the batch update are invoked only
\* after insertDimension and the save of the new rows resolved; and a run
\* that returned resolved each block's calls exactly once.
C29_InsertThenBatch ==
    wPc # "idle" =>
        /\ \A k \in DOMAIN WriteCalls : resolvedAttempts(k) \in {0, 1}
        /\ wInvoked[1] <= 1
        /\ \A k \in {2, 3} : wInvoked[k] > 0 => resolvedAttempts(k - 1) = 1
        /\ \A k \in {4, 5} : (wInvoked[k] > 0 /\ wNew) =>
              /\ resolvedAttempts(1) = 1
              /\ resolvedAttempts(3) = 1
        /\ wInvoked[5] > 0 => resolvedAttempts(4) = 1
        /\ wPc = "returned" =>
              \A k \in DOMAIN WriteCalls :
                  resolvedAttempts(k) = IF CallMade(k) THEN 1 ELSE 0

\* Witness of C29: a run with rows to insert and rows to update returned
\* after the save of the new rows was retried.
C29_BothBatchesSaved ==
    /\ wPc = "returned"
    /\ wNew
    /\ wBatch
    /\ wInvoked[3] = 2
    /\ resolvedAttempts(1) = 1
    /\ resolvedAttempts(5) = 1

(***************************************************************************)
(* Order of the reads, crawls and writes of one processSheet run (SpecRun).*)
(***************************************************************************)
\* positions of the entries of rLog of one kind
LogPositions(kinds) == {i \in DOMAIN rLog : rLog[i].ev \in kinds}

\* C28: within one store's run the snapshot is read exactly once, before the
\* first page fetch, and no row is inserted, updated or retired until every
\* enabled query has been crawled and the batch has been de-duplicated.
C28_ReadOnceWriteLast ==
    /\ Cardinality(LogPositions({"snapshot"})) <= 1
    /\ rPc \in {"crawl", "insert", "saveNew", "batch", "returned"} =>
          Cardinality(LogPositions({"snapshot"})) = 1
    /\ \A f \in LogPositions({"fetch", "crawl"}) :
          \E r \in LogPositions({"snapshot"}) : r < f
    /\ \A w \in LogPositions(RowWrites) :
          \E d \in LogPositions({"dedup"}) :
             /\ d < w
             /\ \A c \in LogPositions({"fetch", "crawl"}) : c < d
             /\ \A u \in DOMAIN rUrls :
                   Cardinality({c \in LogPositions({"crawl"}) : rLog[c].url = u}) = 1

\* Witness of C28: a run over two queries returned after inserting rows and
\* saving the batch update.
C28_TwoQueriesThenBothWrites ==
    /\ rPc = "returned"
    /\ Len(rUrls) = 2
    /\ LogPositions({"insert"}) # {}
    /\ LogPositions({"saveBatch"}) # {}

(***************************************************************************)
(* Rows a run leaves alone (Spec).                                         *)
(***************************************************************************)
\* C30: No write for unchanged rows. In a successful run, a row that is
\* Active and whose batch record differs from it in no compared field (so
\* that it is to be classified unchanged), and a row that is already
\* Inactive and absent from the batch, has no cell modified by the run, Last
\* Updated and Views included, wherever it lies relative to the rows the
\* batch update loads.
C30_UnchangedRowsUntouched ==
    [][(IsRun /\ result'.ok) =>
         \E batch \in {BatchOf(result')} :
            \A i \in DOMAIN sheet :
               ( \/ \E k \in DOMAIN batch :
                       /\ batch[k].id = sheet[i].id
                       /\ sheet[i].status = "Active"
                       /\ StoredEqualsExceptViews(sheet[i], batch[k])
                 \/ /\ sheet[i].status = "Inactive"
                    /\ sheet[i].id \notin result'.seen ) =>
                  \E j \in DOMAIN sheet' : sheet'[j] = sheet[i]]_vars

(***************************************************************************)
(* Retirement, statuses and counters of a run (Spec).                      *)
(***************************************************************************)
\* C31: Retirement frame. A row that a run turns from Active to Inactive
\* differs from what it was only in Status (Inactive) and Last Updated (the
\* timestamp of the run): its id, its listing fields, Views, Source URL,
\* First Seen and the three user columns are unchanged. The rows a
\* successful run counts as retired are turned Inactive.
C31_RetirementFrame ==
    [][IsRun =>
         /\ \A i \in DOMAIN sheet : \A j \in DOMAIN sheet' :
               ( /\ sheet[i].id # ""
                 /\ sheet'[j].id = sheet[i].id
                 /\ sheet[i].status = "Active"
                 /\ sheet'[j].status = "Inactive" ) =>
                   sheet'[j] = [sheet[i] EXCEPT !.status = "Inactive",
                                                !.lastUpdated = now']
         /\ result'.ok =>
               \A id \in result'.retiredIds :
                  \E j \in DOMAIN sheet' :
                     sheet'[j].id = id /\ sheet'[j].status = "Inactive"]_vars

\* Witness of C31: the latest run retired a row that the curator had
\* annotated and that had been first seen in an earlier run.
C31_AnnotatedRowRetired ==
    /\ lastOp = "run"
    /\ result.ok
    /\ \E i \in DOMAIN sheet :
          /\ sheet[i].id \in result.retiredIds
          /\ sheet[i].status = "Inactive"
          /\ sheet[i].lastUpdated = now
          /\ sheet[i].firstSeen < now
          /\ sheet[i].mark = "x"
          /\ ~sheet[i].views.empty

\* C36: Post-run status invariant. After every successful run each populated
\* row is Active if its id is in the de-duplicated batch of the run and
\* Inactive otherwise.
C36_ActiveIffInBatch ==
    (lastOp = "run" /\ result.ok) =>
        \A i \in DOMAIN sheet : sheet[i].id # "" =>
            /\ sheet[i].status \in {"Active", "Inactive"}
            /\ sheet[i].status = "Active" <=> sheet[i].id \in result.seen

\* Witness of C36: after a successful run over the second query only, the
\* row of the first query is Inactive and the row of the batch is Active.
C36_OtherQueryRowInactive ==
    /\ lastOp = "run"
    /\ result.ok
    /\ result.urls = <<Queries[2]>>
    /\ \E i, j \in DOMAIN sheet :
          /\ sheet[i].sourceUrl = Queries[1]
          /\ sheet[i].status = "Inactive"
          /\ sheet[j].id \in result.seen
          /\ sheet[j].status = "Active"

\* C37: Classification is a partition. In every successful run each record
\* of the de-duplicated batch is counted in exactly one of added, updated,
\* unchanged, so the three counters add up to the batch size; the retired
\* rows are exactly the Active ids of the snapshot that are absent from the
\* batch; and no id is both retired and inserted, updated or unchanged.
C37_ClassificationPartition ==
    [][(IsRun /\ result'.ok) =>
         \E batch \in {BatchOf(result')} :
            /\ result'.added + result'.updated + result'.unchanged = Len(batch)
            /\ result'.added = Cardinality(result'.addedIds)
            /\ result'.updated = Cardinality(result'.updatedIds)
            /\ result'.unchanged = Cardinality(result'.unchangedIds)
            /\ result'.inactive = Cardinality(result'.retiredIds)
            /\ result'.addedIds \cup result'.updatedIds \cup result'.unchangedIds
                  = {batch[k].id : k \in DOMAIN batch}
            /\ result'.addedIds \cap result'.updatedIds = {}
            /\ result'.addedIds \cap result'.unchangedIds = {}
            /\ result'.updatedIds \cap result'.unchangedIds = {}
            /\ result'.retiredIds =
                  {sheet[i].id : i \in {k \in DOMAIN sheet :
                                          /\ sheet[k].status = "Active"
                                          /\ sheet[k].id \notin result'.seen}}
            /\ result'.retiredIds \cap result'.seen = {}]_vars

\* Witness of C37: one successful run inserted a row, updated a row and
\* retired none, or inserted, updated and retired at once.
C37_AddedAndUpdatedInOneRun ==
    /\ lastOp = "run"
    /\ result.ok
    /\ result.added = 1
    /\ result.updated = 1
    /\ Cardinality(result.seen) = 2

(***************************************************************************)
(* Spacing of the navigations of one query (SpecCrawl).                    *)
(***************************************************************************)
\* C39: Request spacing. Between the start of two consecutive page
\* navigations of a query (a retry of the same page, the next page after a
\* success, the next page after one that used all its attempts) the
\* controller sleeps at least REQUEST_DELAY_MS.
C39_SleepBeforeEveryNavigation ==
    (pc = "fetch" /\ lastFetch # <<0, 0>>) => slept >= REQUEST_DELAY_MS

(***************************************************************************)
(* Page fetches in flight on the browser context (SpecPage).               *)
(***************************************************************************)
\* C33: No parallel fetches. At most one page fetch is in flight on the
\* browser context: when the page attempt of the next query is started or is
\* executing its steps, no navigation or extraction step of an earlier
\* attempt, one ended by the outer timer included, is still pending.
C33_OneFetchInFlight ==
    (aPc \in {"newPage"} \cup RaceSteps) => aPending = "none"

(***************************************************************************)
(* The backend calls of a run (SpecRun).                                   *)
(***************************************************************************)
\* C34: Every backend call is guarded. Every call made to the Sheets API
\* during a run (loadInfo, addSheet, getRows, loadCells, saveUpdatedCells,
\* insertDimension) goes through withRetry, and insertDimension is the only
\* one limited to a single attempt.
C34_EveryBackendCallGuarded ==
    \A i \in DOMAIN rBackend :
       /\ rBackend[i].guarded
       /\ rBackend[i].maxAttempts = 1 <=> rBackend[i].call = "insertDimension"

(***************************************************************************)
(* Configuration errors of one store among several (SpecStores).           *)
(***************************************************************************)
\* the run that is ending threw a configuration error: a credential is
\* missing, or the Config sheet has no Active url
ConfigErrorEnds ==
    /\ mainPc = "loop"
    /\ rPc = "thrown"
    /\ rError \in {MissingCredentials, NoActiveUrls}
    /\ results' # results

\* C32: Configuration errors are store-local and write-free. A store whose
\* run throws because a credential is missing or because its Config sheet
\* has no Active url is recorded as failed with that error; no row of its
\* Data sheet is inserted, updated or retired in that run (no insertDimension
\* and no saveUpdatedCells of data rows was called); and main goes on to the
\* next store: when main leaves the loop every configured store has had its
\* processSheet call and its result.
C32_ConfigErrorsAreLocal ==
    /\ [][ConfigErrorEnds =>
            /\ results' = Append(results, [name |-> sheetConfigs[mainIdx],
                                           success |-> FALSE, error |-> rError])
            /\ LogPositions(RowWrites) = {}
            /\ \A i \in DOMAIN rBackend :
                  rBackend[i].call \notin {"insertDimension",
                                          "saveUpdatedCells (newRows)",
                                          "saveUpdatedCells (batchUpdate)"}
            /\ mainPc' = "loop"
            /\ mainIdx' = mainIdx + 1]_vars
    /\ []((mainPc = "exit" /\ Len(sheetConfigs) > 0) =>
            /\ started = [i \in 1..Len(sheetConfigs) |-> i]
            /\ Len(results) = Len(sheetConfigs))

\* Witness of C32: the first store failed for want of an Active url, and a
\* later store was processed and succeeded.
C32_LaterStoreProcessedAfterConfigError ==
    /\ mainPc = "exit"
    /\ Len(results) >= 2
    /\ results[1].error = NoActiveUrls
    /\ ~results[1].success
    /\ \E j \in 2..Len(results) : results[j].success

(***************************************************************************)
(* Operations of timed-out attempts of withRetry (SpecWriteLate).           *)
(***************************************************************************)
\* C40: No overlapping attempts in withRetry. When withRetry starts attempt
\* k + 1 of a call, the operation of attempt k is no longer in flight; and
\* no operation whose attempt was declared timed out takes effect on the
\* sheet after withRetry went on to a later attempt or threw.
C40_NoOverlappingAttempts ==
    /\ (wPc = "call" /\ wAttempt > 1) => wInFlight # <<wCall, wAttempt - 1>>
    /\ wLate = NoOperation

(***************************************************************************)
(* Partial runs (SpecPartial).                                             *)
(***************************************************************************)
\* the populated rows of s, top to bottom, their two timestamps set aside
PopulatedRows(s) ==
    LET rows == SelectSeq(s, LAMBDA r : r.id # "")
    IN  [i \in DOMAIN rows |-> [rows[i] EXCEPT !.firstSeen = 0, !.lastUpdated = 0]]

\* the sheet a run of the batch of scRun leaves when nothing fails, started
\* from the sheet the failed run started from
FailureFreeSheet ==
    processSheet(scBefore, scRun.urls,
                 Crawled(scRun.urls, scRun.reached, scRun.site), now).sheet["none"]

\* C35: Recovery after a partial write. When a run failed inside
\* writeListingsToSheet (insertDimension failed, the new rows were inserted
\* but not saved, or the new rows were saved but not the batch of updates)
\* and the next run crawls the same batch and completes, every id has
\* exactly one populated row, and the populated rows are, timestamps aside,
\* those a single run without failure would have left.
C35_RecoveryAfterPartialWrite ==
    scPhase = "recovered" =>
        /\ \A i \in DOMAIN sheet : sheet[i].id # "" => RowsOf(sheet, sheet[i].id) = 1
        /\ PopulatedRows(sheet) = PopulatedRows(FailureFreeSheet)

\* Witness of C35: the failed run had inserted a row and left it blank; the
\* next run inserted the row again, updated an older row, and the blank row
\* is still in the sheet.
C35_RecoveredOverBlankRow ==
    /\ scPhase = "recovered"
    /\ scRun.fault = "saveNew"
    /\ result.added >= 1
    /\ result.updated >= 1
    /\ \E i \in DOMAIN sheet : sheet[i].id = ""

\* C38: No retirement from an incomplete crawl. When the crawl of a query
\* was cut short in a run, a row that was Active before the run, was sourced
\* from that query and is listed on a page the crawl did not reach is still
\* Active after the run.
C38_NoRetirementFromCutCrawl ==
    scPhase = "cut" =>
        \A i \in DOMAIN scBefore :
           ( /\ scBefore[i].status = "Active"
             /\ \E u \in DOMAIN scRun.urls :
                   /\ scRun.urls[u] = scBefore[i].sourceUrl
                   /\ scBefore[i].id \in Range(scRun.listed[u])
                   /\ scBefore[i].id \notin Range(scRun.reached[u]) ) =>
               \A j \in DOMAIN sheet :
                  sheet[j].id = scBefore[i].id => sheet[j].status = "Active"

====
